---- MODULE Spec2Model ----
(***************************************************************************)
(* PANfm: a model of the per-device throughput computation                 *)
(* (firewall_api.get_throughput_data), the policy hit-count trend          *)
(* (get_policy_hit_counts) and the device store with its HTTP endpoints    *)
(* (device_manager.DeviceManager, routes.py).                              *)
(*                                                                         *)
(* Numbers.  Python's "/" on the counters yields floats; the model keeps   *)
(* every rate as an exact fraction <<numerator, denominator>> with a       *)
(* positive denominator.  A value returned by round(x, 2) is kept as the   *)
(* integer number of hundredths, a value returned by round(x, 0) as the    *)
(* integer.  time.time() is an integer number of seconds.                  *)
(***************************************************************************)
EXTENDS Integers, Sequences, FiniteSets, TLC

VARIABLES
    previous_stats,   \* firewall_api.previous_stats: device key -> baseline
    rates,            \* the six rate locals of the last get_throughput_data call
    throughput,       \* the dict the last get_throughput_data call returned
    call,             \* history: the inputs of the last get_throughput_data call
    ncalls,           \* history: the number of get_throughput_data calls so far
    policy_history,   \* firewall_api.policy_history: rule name -> last readings
    policies,         \* the 'policies' list the last get_policy_hit_counts call returned
    observed,         \* history: the entries of that call in the order they were read
    obs_log,          \* history: rule name -> every hit count read for it so far
    devices_file,     \* the "devices" list of devices.json, as written by save_devices
    settings,         \* settings.json, as read by load_settings
    next_id,          \* the number of ids uuid.uuid4() has handed out
    result,           \* the value the last DeviceManager call returned
    response,         \* the JSON answer of the last request to a device endpoint
    migrated_count,   \* the migrated_count of the last migrate_api_keys run
    codec,            \* the last encrypt_string and decrypt_string calls
    settings_response, \* the JSON answer of the last request to /api/settings
    auth_file,        \* auth.json
    auth_result,      \* history: the last call of an auth function and its value
    writers,          \* thread -> where it is in add_device, update_device or delete_device
    store_log,        \* history: the ids whose add, update or delete has completed
    pollers,          \* thread -> where it is in get_throughput_data
    poll_log,         \* history: the baselines the polls set out to store and have stored
    stage_data,       \* the stage fields of the dict the last full poll returned
    session,          \* the Flask session of the client
    served,           \* history: the last request and how it was answered
    baseline_from     \* history: device key -> the address its baseline was fetched from

rateVars == <<previous_stats, rates, throughput, call, ncalls>>

trendVars == <<policy_history, policies, observed, obs_log>>

deviceVars == <<devices_file, settings, next_id, result, response>>

authVars == <<auth_file, auth_result>>

runVars == <<writers, store_log, pollers, poll_log>>

webVars == <<stage_data, session, served, baseline_from>>

adminVars == <<migrated_count, codec, settings_response, auth_file, auth_result,
               writers, store_log, pollers, poll_log, stage_data, session, served,
               baseline_from>>

vars == <<previous_stats, rates, throughput, call, ncalls,
          policy_history, policies, observed, obs_log,
          devices_file, settings, next_id, result, response,
          migrated_count, codec, settings_response, auth_file, auth_result,
          writers, store_log, pollers, poll_log, stage_data, session, served,
          baseline_from>>

(***************************************************************************)
(* Bounds and input sets                                                   *)
(***************************************************************************)
MaxTime == 2

MaxCalls == 2

MaxPolicies == 2

MaxObs == 6

MaxDevices == 2

\* the most devices a devices.json holds before the migration
MaxStored == 3

\* the most times a string handed to the codec has been encrypted before
MaxDepth == 1

\* the number of stages of one poll whose query does not succeed
MaxFailing == 1

Times == 0..MaxTime

\* the threads that serve requests at the same time
Threads == {1, 2}

\* device_key: the selected device id, or the firewall address when none is selected
DeviceKeys == {"dev-1", "192.168.1.1"}

IBytes == {0, 100, 2600}
OBytes == {0, 1500}
IPkts == {0, 3}
OPkts == {0, 5}

CounterNames == {"ibytes", "obytes", "ipkts", "opkts"}

Counters == [ibytes : IBytes, obytes : OBytes, ipkts : IPkts, opkts : OPkts]

(***************************************************************************)
(* Exact fractions                                                         *)
(***************************************************************************)
Zero == <<0, 1>>

RatDiv(q, n) == <<q[1], q[2] * n>>

RatAdd(a, b) ==
    IF a[2] = b[2] THEN <<a[1] + b[1], a[2]>>
    ELSE <<a[1] * b[2] + b[1] * a[2], a[2] * b[2]>>

RatEq(a, b) == a[1] * b[2] = b[1] * a[2]

RatMax0(q) == IF q[1] < 0 THEN Zero ELSE q

\* n/d rounded to the nearest integer, ties to even (d > 0)
RoundHalfEven(n, d) ==
    LET q == n \div d
        r == n % d
    IN  IF 2 * r < d THEN q
        ELSE IF 2 * r > d THEN q + 1
        ELSE IF q % 2 = 0 THEN q ELSE q + 1

\* round(x, 2) in hundredths and round(x, 0)
Round2(q) == RoundHalfEven(q[1] * 100, q[2])

Round0(q) == RoundHalfEven(q[1], q[2])

(***************************************************************************)
(* get_throughput_data                                                     *)
(***************************************************************************)
BytesPerMbps == 125000

NoCall == [op |-> "none", key |-> "", total |-> [ibytes |-> 0, obytes |-> 0, ipkts |-> 0, opkts |-> 0],
           now |-> 0, had |-> FALSE, elapsed |-> 0, reset |-> FALSE]

ZeroRates == [inbound_mbps |-> Zero, outbound_mbps |-> Zero, total_mbps |-> Zero,
              inbound_pps |-> Zero, outbound_pps |-> Zero, total_pps |-> Zero]

NoThroughput == [status |-> "none", inbound_mbps |-> 0, outbound_mbps |-> 0, total_mbps |-> 0,
                 inbound_pps |-> 0, outbound_pps |-> 0, total_pps |-> 0]

\* the record a key gets when it is not yet in previous_stats
InitialStats(t0) == [ibytes |-> 0, obytes |-> 0, ipkts |-> 0, opkts |-> 0, timestamp |-> t0]

\* "Avoid negative deltas from counter resets"
NonNegDelta(d) == IF d < 0 THEN 0 ELSE d

\* the six rates of a call, by what a rate is: the clamped delta over the elapsed time
RatesFromDeltas(device_stats, total, time_delta) ==
    LET inbound_mbps == <<NonNegDelta(total.ibytes - device_stats.ibytes), time_delta * BytesPerMbps>>
        outbound_mbps == <<NonNegDelta(total.obytes - device_stats.obytes), time_delta * BytesPerMbps>>
        inbound_pps == <<NonNegDelta(total.ipkts - device_stats.ipkts), time_delta>>
        outbound_pps == <<NonNegDelta(total.opkts - device_stats.opkts), time_delta>>
    IN  [inbound_mbps |-> inbound_mbps, outbound_mbps |-> outbound_mbps,
         total_mbps |-> RatAdd(inbound_mbps, outbound_mbps),
         inbound_pps |-> inbound_pps, outbound_pps |-> outbound_pps,
         total_pps |-> RatAdd(inbound_pps, outbound_pps)]

\* a version that takes every record with a positive elapsed time for a baseline
ComputeRatesAnyBaseline(device_stats, total, current_time) ==
    LET time_delta == current_time - device_stats.timestamp
    IN  IF time_delta > 0
        THEN RatesFromDeltas(device_stats, total, time_delta)
        ELSE ZeroRates

\* a version that measures the elapsed time as a distance
ComputeRatesAbsElapsed(device_stats, total, current_time) ==
    LET d == current_time - device_stats.timestamp
        time_delta == IF d < 0 THEN 0 - d ELSE d
    IN  IF time_delta > 0 /\ device_stats.ibytes > 0
        THEN RatesFromDeltas(device_stats, total, time_delta)
        ELSE ZeroRates

\* the six rate locals computed from the stored record and the counters just read
ComputeRates(device_stats, total, current_time) ==
    LET time_delta == current_time - device_stats.timestamp
    IN  IF time_delta > 0 /\ device_stats.ibytes > 0
        THEN LET ibytes_delta == NonNegDelta(total.ibytes - device_stats.ibytes)
                 obytes_delta == NonNegDelta(total.obytes - device_stats.obytes)
                 ipkts_delta == NonNegDelta(total.ipkts - device_stats.ipkts)
                 opkts_delta == NonNegDelta(total.opkts - device_stats.opkts)
                 inbound_bps == <<ibytes_delta, time_delta>>
                 outbound_bps == <<obytes_delta, time_delta>>
                 inbound_pps == <<ipkts_delta, time_delta>>
                 outbound_pps == <<opkts_delta, time_delta>>
                 inbound_mbps == RatDiv(inbound_bps, BytesPerMbps)
                 outbound_mbps == RatDiv(outbound_bps, BytesPerMbps)
             IN  [inbound_mbps |-> inbound_mbps,
                  outbound_mbps |-> outbound_mbps,
                  total_mbps |-> RatAdd(inbound_mbps, outbound_mbps),
                  inbound_pps |-> inbound_pps,
                  outbound_pps |-> outbound_pps,
                  total_pps |-> RatAdd(inbound_pps, outbound_pps)]
        ELSE ZeroRates

\* the rate fields of the returned dict
Snapshot(r) ==
    [status |-> "success",
     inbound_mbps |-> Round2(RatMax0(r.inbound_mbps)),
     outbound_mbps |-> Round2(RatMax0(r.outbound_mbps)),
     total_mbps |-> Round2(RatMax0(r.total_mbps)),
     inbound_pps |-> Round0(RatMax0(r.inbound_pps)),
     outbound_pps |-> Round0(RatMax0(r.outbound_pps)),
     total_pps |-> Round0(RatMax0(r.total_pps))]

\* a version that handles neither a counter reset nor a negative rate
ThroughputResultUnguarded(device_stats, total, current_time) ==
    LET time_delta == current_time - device_stats.timestamp
        r == IF time_delta > 0 /\ device_stats.ibytes > 0
             THEN LET inbound_mbps == <<total.ibytes - device_stats.ibytes, time_delta * BytesPerMbps>>
                      outbound_mbps == <<total.obytes - device_stats.obytes, time_delta * BytesPerMbps>>
                      inbound_pps == <<total.ipkts - device_stats.ipkts, time_delta>>
                      outbound_pps == <<total.opkts - device_stats.opkts, time_delta>>
                  IN  [inbound_mbps |-> inbound_mbps, outbound_mbps |-> outbound_mbps,
                       total_mbps |-> RatAdd(inbound_mbps, outbound_mbps),
                       inbound_pps |-> inbound_pps, outbound_pps |-> outbound_pps,
                       total_pps |-> RatAdd(inbound_pps, outbound_pps)]
             ELSE ZeroRates
    IN  [rates |-> r,
         snapshot |-> [status |-> "success",
                       inbound_mbps |-> Round2(r.inbound_mbps),
                       outbound_mbps |-> Round2(r.outbound_mbps),
                       total_mbps |-> Round2(r.total_mbps),
                       inbound_pps |-> Round0(r.inbound_pps),
                       outbound_pps |-> Round0(r.outbound_pps),
                       total_pps |-> Round0(r.total_pps)]]

\* the rate computation followed by the assembly of the returned dict
ThroughputResult(device_stats, total, current_time) ==
    LET r == ComputeRates(device_stats, total, current_time)
    IN  [rates |-> r, snapshot |-> Snapshot(r)]

\* a version that never lowers a stored counter
UpdateStatsMonotone(stats, device_key, total, current_time) ==
    LET old == stats[device_key]
        Keep(c) == IF total[c] < old[c] THEN old[c] ELSE total[c]
    IN  [stats EXCEPT ![device_key] =
            [ibytes |-> Keep("ibytes"), obytes |-> Keep("obytes"),
             ipkts |-> Keep("ipkts"), opkts |-> Keep("opkts"),
             timestamp |-> current_time]]

\* "Update device stats for this device"
UpdateStats(stats, device_key, total, current_time) ==
    [stats EXCEPT ![device_key] =
        [ibytes |-> total.ibytes, obytes |-> total.obytes,
         ipkts |-> total.ipkts, opkts |-> total.opkts,
         timestamp |-> current_time]]

\* "Initialize device stats if not exists"
EnsureStats(stats, device_key, t0) ==
    IF device_key \notin DOMAIN stats
    THEN (device_key :> InitialStats(t0)) @@ stats
    ELSE stats

\* The interface-counter query answered 200 and parsed to `total` (all zero when
\* the interface entry is missing); t0 and current_time are the two time.time()
\* readings of the call.
GetThroughputData(device_key, total, t0, current_time) ==
    LET stats0 == EnsureStats(previous_stats, device_key, t0)
        device_stats == stats0[device_key]
        res == ThroughputResult(device_stats, total, current_time)
    IN  /\ previous_stats' = UpdateStats(stats0, device_key, total, current_time)
        /\ rates' = res.rates
        /\ throughput' = res.snapshot
        /\ call' = [op |-> "sample", key |-> device_key, total |-> total,
                    now |-> current_time,
                    had |-> device_key \in DOMAIN previous_stats,
                    elapsed |-> IF device_key \in DOMAIN previous_stats
                                THEN current_time - device_stats.timestamp ELSE 0,
                    reset |-> \E c \in CounterNames : total[c] < device_stats[c]]

\* The query answered with another status, or the request or the XML parse raised:
\* {'status': 'error', ...} is returned before previous_stats is touched.
GetThroughputDataFailed(device_key) ==
    /\ throughput' = [NoThroughput EXCEPT !.status = "error"]
    /\ call' = [NoCall EXCEPT !.op = "error", !.key = device_key]
    /\ UNCHANGED <<previous_stats, rates>>

Poll ==
    /\ UNCHANGED trendVars
    /\ UNCHANGED adminVars
    /\ UNCHANGED deviceVars
    /\ ncalls < MaxCalls
    /\ ncalls' = ncalls + 1
    /\ \E device_key \in DeviceKeys, total \in Counters, current_time \in Times :
        \E t0 \in (IF device_key \in DOMAIN previous_stats THEN {current_time} ELSE Times) :
            GetThroughputData(device_key, total, t0, current_time)

PollFailed ==
    /\ UNCHANGED trendVars
    /\ UNCHANGED adminVars
    /\ UNCHANGED deviceVars
    /\ ncalls < MaxCalls
    /\ ncalls' = ncalls + 1
    /\ \E device_key \in DeviceKeys : GetThroughputDataFailed(device_key)

(***************************************************************************)
(* get_throughput_data under concurrent requests for one device key.  The  *)
(* function takes no lock.  device_stats is a reference to the dict in     *)
(* previous_stats, and "Update device stats" stores its five fields one    *)
(* after the other, so the other threads run between two stores.  A poller *)
(* is [pc, total, current_time, device_stats, rates]: device_stats is the  *)
(* copy of the fields it read for its deltas.                              *)
(***************************************************************************)
PollKey == "dev-1"

\* the counters two polls read
PollSamples ==
    {[ibytes |-> 100, obytes |-> 0, ipkts |-> 0, opkts |-> 0],
     [ibytes |-> 2600, obytes |-> 1500, ipkts |-> 3, opkts |-> 5]}

StatsFields == <<"ibytes", "obytes", "ipkts", "opkts", "timestamp">>

IdlePoller ==
    [pc |-> 0, total |-> [ibytes |-> 0, obytes |-> 0, ipkts |-> 0, opkts |-> 0],
     current_time |-> 0, device_stats |-> InitialStats(0), rates |-> ZeroRates]

NoPollLog == [started |-> {}, stored |-> {}]

\* the record a poll stores: its counters and its time
StatsOf(total, current_time) ==
    [ibytes |-> total.ibytes, obytes |-> total.obytes, ipkts |-> total.ipkts,
     opkts |-> total.opkts, timestamp |-> current_time]

\* the query, "Initialize device stats if not exists", and time.time()
PollFetch(t) ==
    /\ pollers[t].pc = 0
    /\ ncalls < MaxCalls
    /\ ncalls' = ncalls + 1
    /\ \E total \in PollSamples, current_time \in Times :
          /\ pollers' = [pollers EXCEPT ![t] =
                            [@ EXCEPT !.pc = 1, !.total = total,
                                      !.current_time = current_time]]
          /\ previous_stats' = EnsureStats(previous_stats, PollKey, current_time)
          /\ poll_log' =
                [started |-> poll_log.started \cup {StatsOf(total, current_time)}
                                 \cup (IF PollKey \in DOMAIN previous_stats THEN {}
                                       ELSE {InitialStats(current_time)}),
                 stored |-> poll_log.stored
                                \cup (IF PollKey \in DOMAIN previous_stats THEN {}
                                      ELSE {InitialStats(current_time)})]
    /\ UNCHANGED <<rates, throughput, call>>

\* "Calculate throughput rate": the fields of device_stats are read
PollCompute(t) ==
    /\ pollers[t].pc = 1
    /\ pollers' = [pollers EXCEPT ![t] =
                      [@ EXCEPT !.pc = 2, !.device_stats = previous_stats[PollKey],
                                !.rates = ComputeRates(previous_stats[PollKey],
                                                       pollers[t].total,
                                                       pollers[t].current_time)]]
    /\ UNCHANGED <<previous_stats, rates, throughput, call, ncalls, poll_log>>

\* the value a poller assigns to a field of device_stats
StoredValue(p, field) == IF field = "timestamp" THEN p.current_time ELSE p.total[field]

\* "Update device stats for this device": one of the five assignments; after
\* the last one the poll goes on to the other queries and returns
PollStore(t) ==
    /\ pollers[t].pc \in 2..6
    /\ LET field == StatsFields[pollers[t].pc - 1]
       IN  previous_stats' = [previous_stats EXCEPT
                                 ![PollKey][field] = StoredValue(pollers[t], field)]
    /\ pollers' = [pollers EXCEPT ![t].pc = IF @ = 6 THEN 0 ELSE @ + 1]
    /\ poll_log' = IF pollers[t].pc = 6
                   THEN [poll_log EXCEPT
                            !.stored = @ \cup {StatsOf(pollers[t].total,
                                                       pollers[t].current_time)}]
                   ELSE poll_log
    /\ throughput' = IF pollers[t].pc = 6 THEN Snapshot(pollers[t].rates) ELSE throughput
    /\ rates' = IF pollers[t].pc = 6 THEN pollers[t].rates ELSE rates
    /\ UNCHANGED <<call, ncalls>>

PollerStep ==
    /\ \E t \in Threads : PollFetch(t) \/ PollCompute(t) \/ PollStore(t)
    /\ UNCHANGED <<trendVars, deviceVars, migrated_count, codec, settings_response,
                   authVars, writers, store_log, webVars>>

InitRate ==
    /\ previous_stats = << >>
    /\ rates = ZeroRates
    /\ throughput = NoThroughput
    /\ call = NoCall
    /\ ncalls = 0

NextRate == Poll \/ PollFailed

(***************************************************************************)
(* get_policy_hit_counts: the trend of each rule's hit count                *)
(* (the same lines stand in firewall_api_policies.py, 188-222)             *)
(*                                                                         *)
(* previous_avg * 1.1 and previous_avg * 0.9 are float products; they are  *)
(* compared here in exact arithmetic, current * 10 * n against 11 * sum    *)
(* and 9 * sum.  On every history over HitCounts the two agree; binary64   *)
(* differs only where previous_avg is not representable and the exact      *)
(* product is the integer compared with.                                   *)
(***************************************************************************)
RuleNames == {"allow-web", "deny-all"}

HitCounts == {9, 10, 11}

HistoryLen == 5

PolicyEntries == [name : RuleNames, hit_count : HitCounts]

\* the policies a call builds from the firewall's answer, before the trend loop
EntryLists == UNION {[1..n -> PolicyEntries] : n \in 0..MaxPolicies}

RECURSIVE Sum(_)
Sum(s) == IF s = << >> THEN 0 ELSE Head(s) + Sum(Tail(s))

\* s[-n:]
LastN(s, n) == IF Len(s) <= n THEN s ELSE SubSeq(s, Len(s) - n + 1, Len(s))

\* s[:-1]
AllButLast(s) == SubSeq(s, 1, Len(s) - 1)

\* a version that keeps the first readings and drops the new one
KeepLastReadingsOldest(h) == IF Len(h) > HistoryLen THEN SubSeq(h, 1, HistoryLen) ELSE h

\* "Keep only last 5 readings"
KeepLastReadings(h) == IF Len(h) > HistoryLen THEN LastN(h, HistoryLen) ELSE h

\* a version that averages all the readings, the current one included
TrendOfAllReadings(recent_counts) ==
    IF Len(recent_counts) >= 2
    THEN LET current == recent_counts[Len(recent_counts)]
             n == Len(recent_counts)
             total == Sum(recent_counts)
         IN  IF current * 10 * n > 11 * total THEN "up"
             ELSE IF current * 10 * n < 9 * total THEN "down"
             ELSE "stable"
    ELSE "None"

\* "Calculate trend if we have at least 2 readings"; "None" is Python's None
TrendOf(recent_counts) ==
    IF Len(recent_counts) >= 2
    THEN IF Len(recent_counts) > 1
         THEN LET previous == AllButLast(recent_counts)
                  n == Len(previous)
                  total == Sum(previous)
                  current == recent_counts[Len(recent_counts)]
              IN  IF current * 10 * n > 11 * total THEN "up"
                  ELSE IF current * 10 * n < 9 * total THEN "down"
                  ELSE "stable"
         ELSE "stable"
    ELSE "None"

\* one pass of the loop body: the history of policy_name after the append and trim
HistoryAfter(history, policy_name, current_count) ==
    LET h0 == IF policy_name \in DOMAIN history THEN history[policy_name] ELSE << >>
    IN  KeepLastReadings(Append(h0, current_count))

SetHistory(history, policy_name, h) ==
    IF policy_name \in DOMAIN history
    THEN [history EXCEPT ![policy_name] = h]
    ELSE (policy_name :> h) @@ history

\* the loop "for policy in policies": the history after the first i entries
RECURSIVE HistoryAt(_, _, _)
HistoryAt(history, entries, i) ==
    IF i = 0 THEN history
    ELSE LET before == HistoryAt(history, entries, i - 1)
             e == entries[i]
         IN  SetHistory(before, e.name, HistoryAfter(before, e.name, e.hit_count))

\* the entries with the trend the loop gave each, in the order they were read
WithTrends(history, entries) ==
    [i \in 1..Len(entries) |->
        LET h == HistoryAt(history, entries, i)[entries[i].name]
        IN  [name |-> entries[i].name, hit_count |-> entries[i].hit_count,
             trend |-> TrendOf(h), readings |-> h]]

\* policies.sort(key=hit_count, reverse=True): a stable sort, equal keys keep their order
RECURSIVE InsertDesc(_, _)
InsertDesc(sorted, p) ==
    IF sorted = << >> THEN <<p>>
    ELSE IF Head(sorted).hit_count >= p.hit_count
         THEN <<Head(sorted)>> \o InsertDesc(Tail(sorted), p)
         ELSE <<p>> \o sorted

RECURSIVE SortDesc(_)
SortDesc(s) ==
    IF s = << >> THEN << >>
    ELSE InsertDesc(SortDesc(AllButLast(s)), s[Len(s)])

Returned(p) == [name |-> p.name, hit_count |-> p.hit_count, trend |-> p.trend]

\* the hit counts the entries carry for rule n, in order
RECURSIVE CountsFor(_, _)
CountsFor(entries, n) ==
    IF entries = << >> THEN << >>
    ELSE (IF Head(entries).name = n THEN <<Head(entries).hit_count>> ELSE << >>)
             \o CountsFor(Tail(entries), n)

RECURSIVE TotalLen(_, _)
TotalLen(log, S) ==
    IF S = {} THEN 0
    ELSE LET n == CHOOSE x \in S : TRUE
         IN  Len(log[n]) + TotalLen(log, S \ {n})

NumObserved == TotalLen(obs_log, RuleNames)

\* The rule query answered 200 and `entries` is the policies list built from it
\* (empty when the answer is not 200 or the JSON could not be read).
GetPolicyHitCounts(entries) ==
    LET done == WithTrends(policy_history, entries)
    IN  /\ policy_history' = HistoryAt(policy_history, entries, Len(entries))
        /\ observed' = done
        /\ policies' = SortDesc([i \in 1..Len(done) |-> Returned(done[i])])
        /\ obs_log' = [n \in RuleNames |-> obs_log[n] \o CountsFor(entries, n)]

PolicyPoll ==
    /\ UNCHANGED rateVars
    /\ UNCHANGED deviceVars
    /\ UNCHANGED adminVars
    /\ \E entries \in EntryLists :
           /\ NumObserved + Len(entries) <= MaxObs
           /\ GetPolicyHitCounts(entries)

InitTrend ==
    /\ policy_history = << >>
    /\ policies = << >>
    /\ observed = << >>
    /\ obs_log = [n \in RuleNames |-> << >>]

NextTrend == PolicyPoll

(***************************************************************************)
(* The secret codec.  encryption.py is not among the sources; the two      *)
(* functions device_manager imports from it follow the specification       *)
(* (section 4.1): decode(encode(s)) = s, and decode returns an input that  *)
(* the codec did not produce unchanged.                                    *)
(*                                                                         *)
(* A string that may be a secret is a record [enc, txt]: txt is the text   *)
(* and enc the number of times it has been encrypted, so enc = 0 is the    *)
(* plain string and enc >= 1 a ciphertext.                                 *)
(***************************************************************************)
Plain(s) == [enc |-> 0, txt |-> s]

\* Python's truth value of a string: the empty plain string is false
Truthy(v) == ~(v.enc = 0 /\ v.txt = "")

encrypt_string(v) == [v EXCEPT !.enc = @ + 1]

\* a version that hands every input back as it is
decrypt_string_as_is(v) == v

decrypt_string(v) == IF v.enc > 0 THEN [v EXCEPT !.enc = @ - 1] ELSE v

\* the strings test_string_encryption hands to the codec, and their ciphertexts
TestStrings ==
    {"simple_string", "API_KEY_12345678", "192.168.1.1", "special!@#$%^&*()chars",
     "unicode_test", ""}

CodecStrings == [enc : 0..MaxDepth, txt : TestStrings]

\* codec: the argument and the value of the last call of each function
\* (<< >> before the first call)
NoCodecCall ==
    [op |-> "", original |-> << >>, encrypted |-> << >>, input |-> << >>,
     decrypted |-> << >>]

EncryptString ==
    /\ \E s \in CodecStrings :
          codec' = [codec EXCEPT !.op = "encrypt_string", !.original = <<s>>,
                                 !.encrypted = <<encrypt_string(s)>>]
    /\ UNCHANGED <<rateVars, trendVars, deviceVars, migrated_count, settings_response, authVars, runVars, webVars>>

\* decrypt_string, called with any string or with what encrypt_string returned
DecryptString ==
    /\ \E x \in CodecStrings \cup {codec.encrypted[i] : i \in 1..Len(codec.encrypted)} :
          codec' = [codec EXCEPT !.op = "decrypt_string", !.input = <<x>>,
                                 !.decrypted = <<decrypt_string(x)>>]
    /\ UNCHANGED <<rateVars, trendVars, deviceVars, migrated_count, settings_response, authVars, runVars, webVars>>

NextCodec == EncryptString \/ DecryptString

(***************************************************************************)
(* device_manager.DeviceManager                                            *)
(*                                                                         *)
(* A device is a record with the fields id, name, ip, api_key, enabled and *)
(* group; description, added_date, last_seen, monitored_interface and      *)
(* wan_interface are stored and merged exactly as group is.  The file is   *)
(* read and written without error.                                         *)
(***************************************************************************)
\* str(uuid.uuid4()): the n-th id handed out
IdPool == <<"id-1", "id-2", "id-3", "id-4">>

DeviceIds == {IdPool[i] : i \in 1..Len(IdPool)}

DeviceNames == {"fw-a", "fw-b"}

Addresses == {"10.0.0.1"}

Groups == {"Default"}

\* the key strings a caller supplies
ApiKeys == {"key-1", "key-2"}

\* result: the method called and what it returned
\* (ok: the boolean returned or "found"; devices: << >> is None, <<d>> a device)
NoResult == [op |-> "", ok |-> FALSE, devices |-> << >>]

\* a version that hands the stored api_key on as it is
StoredKey(device) == device

\* load_devices, the body of "for device in devices"
DecryptedKey(device) ==
    IF "api_key" \in DOMAIN device /\ Truthy(device.api_key)
    THEN [device EXCEPT !.api_key = decrypt_string(@)]
    ELSE device

load_devices(file, decrypt_api_keys) ==
    IF decrypt_api_keys
    THEN [i \in 1..Len(file) |-> DecryptedKey(file[i])]
    ELSE file

\* a version that writes the devices as they stand in memory
save_devices_as_is(devices) == devices

\* save_devices, the body of "for device in devices"
EncryptedKey(device) ==
    IF "api_key" \in DOMAIN device /\ Truthy(device.api_key)
    THEN [device EXCEPT !.api_key = encrypt_string(@)]
    ELSE device

\* the "devices" list save_devices writes
save_devices(devices) == [i \in 1..Len(devices) |-> EncryptedKey(devices[i])]

\* the index of the first device with this id, 0 when there is none
FirstIndex(devices, device_id) ==
    IF \E i \in 1..Len(devices) : devices[i].id = device_id
    THEN CHOOSE i \in 1..Len(devices) :
             /\ devices[i].id = device_id
             /\ \A j \in 1..(i - 1) : devices[j].id # device_id
    ELSE 0

\* get_device: << >> is None, <<d>> the device found
get_device(file, device_id) ==
    LET devices == load_devices(file, TRUE)
        i == FirstIndex(devices, device_id)
    IN  IF i = 0 THEN << >> ELSE <<devices[i]>>

\* add_device: the dict new_device
NewDevice(id, name, ip, api_key, group) ==
    [id |-> id, name |-> name, ip |-> ip, api_key |-> api_key,
     enabled |-> TRUE, group |-> group]

\* add_device: the file after devices.append(new_device); save_devices(devices)
add_device(file, new_device) ==
    save_devices(Append(load_devices(file, TRUE), new_device))

\* a version in which the fields the device already has win over the updates
DictSetDefault(device, updates) ==
    [f \in (DOMAIN device) \cup (DOMAIN updates) |->
        IF f \in DOMAIN device THEN device[f] ELSE updates[f]]

\* dict.update: the fields of updates overwrite or are added, the others stay
DictUpdate(device, updates) ==
    [f \in (DOMAIN device) \cup (DOMAIN updates) |->
        IF f \in DOMAIN updates THEN updates[f] ELSE device[f]]

\* update_device: the list in memory after devices[i].update(updates)
UpdatedDevices(file, device_id, updates) ==
    LET devices == load_devices(file, TRUE)
        i == FirstIndex(devices, device_id)
    IN  IF i = 0 THEN devices
        ELSE [devices EXCEPT ![i] = DictUpdate(devices[i], updates)]

\* update_device: the file afterwards; it is not written when no id matches
update_device(file, device_id, updates) ==
    IF FirstIndex(file, device_id) = 0 THEN file
    ELSE save_devices(UpdatedDevices(file, device_id, updates))

\* update_device: the value returned, devices[i] or None
update_device_result(file, device_id, updates) ==
    LET i == FirstIndex(file, device_id)
    IN  IF i = 0 THEN << >> ELSE <<UpdatedDevices(file, device_id, updates)[i]>>

RECURSIVE Without(_, _)
Without(devices, device_id) ==
    IF devices = << >> THEN << >>
    ELSE (IF Head(devices).id # device_id THEN <<Head(devices)>> ELSE << >>)
             \o Without(Tail(devices), device_id)

\* delete_device: the file afterwards; it is written whether or not an id matched
delete_device(file, device_id) ==
    save_devices(Without(load_devices(file, TRUE), device_id))

\* the dicts a caller passes as updates: any of the four fields may be missing
UpdateFields == {"id", "name", "api_key", "enabled"}

FullUpdates ==
    [id : {"id-1"}, name : {"fw-b"}, api_key : {Plain(""), Plain("key-2")},
     enabled : BOOLEAN]

Restrict(data, F) == [f \in F |-> data[f]]

Updates == {Restrict(u, F) : u \in FullUpdates, F \in SUBSET UpdateFields}

(***************************************************************************)
(* Calls of the DeviceManager's methods with any arguments                 *)
(***************************************************************************)
AddDeviceCall ==
    /\ UNCHANGED rateVars
    /\ UNCHANGED trendVars
    /\ UNCHANGED adminVars
    /\ next_id < MaxDevices
    /\ next_id < Len(IdPool)
    /\ \E name \in DeviceNames, ip \in Addresses, api_key \in ApiKeys \cup {""},
          group \in Groups :
        LET new_device == NewDevice(IdPool[next_id + 1], name, ip, Plain(api_key), group)
        IN  /\ devices_file' = add_device(devices_file, new_device)
            /\ next_id' = next_id + 1
            /\ result' = [op |-> "add_device", ok |-> TRUE, devices |-> <<new_device>>]
    /\ UNCHANGED <<settings, response>>

UpdateDeviceCall ==
    /\ UNCHANGED rateVars
    /\ UNCHANGED trendVars
    /\ UNCHANGED adminVars
    /\ \E device_id \in DeviceIds, updates \in Updates :
        /\ devices_file' = update_device(devices_file, device_id, updates)
        /\ result' = [op |-> "update_device",
                      ok |-> FirstIndex(devices_file, device_id) # 0,
                      devices |-> update_device_result(devices_file, device_id, updates)]
    /\ UNCHANGED <<settings, next_id, response>>

DeleteDeviceCall ==
    /\ UNCHANGED rateVars
    /\ UNCHANGED trendVars
    /\ UNCHANGED adminVars
    /\ \E device_id \in DeviceIds :
        /\ devices_file' = delete_device(devices_file, device_id)
        /\ result' = [op |-> "delete_device", ok |-> TRUE, devices |-> << >>]
    /\ UNCHANGED <<settings, next_id, response>>

(***************************************************************************)
(* DeviceManager under concurrent requests.  The methods take no lock, so  *)
(* a thread's load_devices and its save_devices are two steps between      *)
(* which the other threads run.  A writer is [pc, op, device_id, devices]: *)
(* after its load, devices is the list it is about to save.                *)
(***************************************************************************)
IdleWriter == [pc |-> "idle", op |-> "", device_id |-> "", devices |-> << >>]

NoStoreLog == [added |-> {}, updated |-> {}, deleted |-> {}, delete_called |-> {}]

\* add_device up to devices.append(new_device)
WriterLoadAdd(t) ==
    /\ writers[t].pc = "idle"
    /\ next_id < MaxDevices
    /\ next_id < Len(IdPool)
    /\ LET new_device ==
               NewDevice(IdPool[next_id + 1], "fw-a", "10.0.0.1", Plain("key-1"), "Default")
       IN  writers' = [writers EXCEPT ![t] =
                          [pc |-> "loaded", op |-> "add_device",
                           device_id |-> new_device.id,
                           devices |-> Append(load_devices(devices_file, TRUE), new_device)]]
    /\ next_id' = next_id + 1
    /\ UNCHANGED <<devices_file, store_log>>

\* update_device up to devices[i].update(updates); None is returned at once
\* when no device has the id
WriterLoadUpdate(t) ==
    /\ writers[t].pc = "idle"
    /\ \E device_id \in DeviceIds :
          /\ FirstIndex(devices_file, device_id) # 0
          /\ writers' = [writers EXCEPT ![t] =
                            [pc |-> "loaded", op |-> "update_device",
                             device_id |-> device_id,
                             devices |-> UpdatedDevices(devices_file, device_id,
                                                        [name |-> "fw-b"])]]
    /\ UNCHANGED <<devices_file, next_id, store_log>>

\* delete_device up to the list comprehension
WriterLoadDelete(t) ==
    /\ writers[t].pc = "idle"
    /\ \E device_id \in DeviceIds :
          /\ writers' = [writers EXCEPT ![t] =
                            [pc |-> "loaded", op |-> "delete_device",
                             device_id |-> device_id,
                             devices |-> Without(load_devices(devices_file, TRUE),
                                                 device_id)]]
          /\ store_log' = [store_log EXCEPT !.delete_called = @ \cup {device_id}]
    /\ UNCHANGED <<devices_file, next_id>>

\* self.save_devices(devices) and the return
WriterSave(t) ==
    /\ writers[t].pc = "loaded"
    /\ devices_file' = save_devices(writers[t].devices)
    /\ writers' = [writers EXCEPT ![t] = IdleWriter]
    /\ store_log' =
          CASE writers[t].op = "add_device" ->
                   [store_log EXCEPT !.added = @ \cup {writers[t].device_id}]
            [] writers[t].op = "update_device" ->
                   [store_log EXCEPT !.updated = @ \cup {writers[t].device_id}]
            [] OTHER ->
                   [store_log EXCEPT !.deleted = @ \cup {writers[t].device_id}]
    /\ UNCHANGED next_id

WriterStep ==
    /\ \E t \in Threads :
          WriterLoadAdd(t) \/ WriterLoadUpdate(t) \/ WriterLoadDelete(t) \/ WriterSave(t)
    /\ UNCHANGED <<settings, result, response, pollers, poll_log>>
    /\ UNCHANGED <<rateVars, trendVars, migrated_count, codec, settings_response, authVars, webVars>>

(***************************************************************************)
(* routes.py: the device endpoints.  A response is the route, the HTTP     *)
(* status and the device records its JSON carries ('device' or 'devices'). *)
(* The uptime and version that GET /api/devices adds to each record come   *)
(* from the firewall and are left out.                                     *)
(***************************************************************************)
DEFAULT_SETTINGS ==
    [refresh_interval |-> 15, debug_logging |-> FALSE,
     selected_device_id |-> "", monitored_interface |-> "ethernet1/12"]

NoResponse == [route |-> "", status |-> 0, devices |-> << >>]

\* the strings a request carries for name and api_key; " " is blank
NameInputs == {"", "fw-a"}

KeyInputs == {"", " ", "key-1", "key-2"}

\* str.strip() on the strings above
Strip(s) == IF s = " " THEN "" ELSE s

\* GET /api/devices
api_get_devices ==
    /\ response' = [route |-> "get_devices", status |-> 200,
                    devices |-> load_devices(devices_file, FALSE)]
    /\ UNCHANGED <<devices_file, settings, next_id, result>>

\* POST /api/devices
api_create_device(data) ==
    LET name == Strip(data.name)
        ip == Strip(data.ip)
        api_key == Strip(data.api_key)
    IN  IF name = "" \/ ip = "" \/ api_key = ""
        THEN /\ response' = [route |-> "create_device", status |-> 400, devices |-> << >>]
             /\ UNCHANGED <<devices_file, settings, next_id, result>>
        ELSE LET existing_devices == load_devices(devices_file, FALSE)
                 was_first_device == Len(existing_devices) = 0
                 new_device == NewDevice(IdPool[next_id + 1], name, ip, Plain(api_key),
                                         data.group)
                 file == add_device(devices_file, new_device)
                 selected == settings.selected_device_id
                 current_selected ==
                     IF selected # "" /\ get_device(file, selected) = << >>
                     THEN "" ELSE selected
             IN  /\ next_id < MaxDevices
                 /\ next_id < Len(IdPool)
                 /\ next_id' = next_id + 1
                 /\ devices_file' = file
                 /\ settings' = IF current_selected = "" \/ was_first_device
                                THEN [settings EXCEPT !.selected_device_id = new_device.id]
                                ELSE settings
                 /\ response' = [route |-> "create_device", status |-> 200,
                                 devices |-> <<new_device>>]
                 /\ UNCHANGED result

\* GET /api/devices/<device_id>
api_get_device(device_id) ==
    LET devices == load_devices(devices_file, FALSE)
        i == FirstIndex(devices, device_id)
    IN  /\ response' = IF i # 0
                       THEN [route |-> "get_device", status |-> 200,
                             devices |-> <<devices[i]>>]
                       ELSE [route |-> "get_device", status |-> 404, devices |-> << >>]
        /\ UNCHANGED <<devices_file, settings, next_id, result>>

\* a version that passes the request's JSON on as it came
KeepEmptyKey(json) == json

\* PUT: "If api_key is empty or not provided, remove it from updates"
DropEmptyKey(json) ==
    IF "api_key" \in DOMAIN json /\ ~Truthy(json.api_key)
    THEN Restrict(json, (DOMAIN json) \ {"api_key"})
    ELSE json

\* PUT /api/devices/<device_id>
api_update_device(device_id, json) ==
    LET data == DropEmptyKey(json)
        updated_device == update_device_result(devices_file, device_id, data)
    IN  /\ devices_file' = update_device(devices_file, device_id, data)
        /\ response' = IF updated_device # << >>
                       THEN [route |-> "update_device", status |-> 200,
                             devices |-> updated_device]
                       ELSE [route |-> "update_device", status |-> 404, devices |-> << >>]
        /\ UNCHANGED <<settings, next_id, result>>

\* a version that leaves the selection as it is
api_delete_device_keep_selection(device_id) ==
    /\ devices_file' = delete_device(devices_file, device_id)
    /\ response' = [route |-> "delete_device", status |-> 200, devices |-> << >>]
    /\ UNCHANGED <<settings, next_id, result>>

\* DELETE /api/devices/<device_id>
api_delete_device(device_id) ==
    LET file == delete_device(devices_file, device_id)
        was_selected == settings.selected_device_id = device_id
        remaining_devices == load_devices(file, FALSE)
    IN  /\ devices_file' = file
        /\ settings' = IF was_selected
                       THEN IF remaining_devices # << >>
                            THEN [settings EXCEPT
                                      !.selected_device_id = remaining_devices[1].id]
                            ELSE [settings EXCEPT !.selected_device_id = ""]
                       ELSE settings
        /\ response' = [route |-> "delete_device", status |-> 200, devices |-> << >>]
        /\ UNCHANGED <<next_id, result>>

GetDevices ==
    /\ UNCHANGED rateVars
    /\ UNCHANGED trendVars
    /\ UNCHANGED adminVars
    /\ api_get_devices

CreateDevice ==
    /\ UNCHANGED rateVars
    /\ UNCHANGED trendVars
    /\ UNCHANGED adminVars
    /\ \E data \in [name : NameInputs, ip : Addresses, api_key : KeyInputs,
                    group : Groups] :
           api_create_device(data)

GetDevice ==
    /\ UNCHANGED rateVars
    /\ UNCHANGED trendVars
    /\ UNCHANGED adminVars
    /\ \E device_id \in DeviceIds : api_get_device(device_id)

UpdateDevice ==
    /\ UNCHANGED rateVars
    /\ UNCHANGED trendVars
    /\ UNCHANGED adminVars
    /\ \E device_id \in DeviceIds, json \in Updates : api_update_device(device_id, json)

DeleteDevice ==
    /\ UNCHANGED rateVars
    /\ UNCHANGED trendVars
    /\ UNCHANGED adminVars
    /\ \E device_id \in DeviceIds : api_delete_device(device_id)

(***************************************************************************)
(* routes.py: /api/settings, with config.load_settings and save_settings.  *)
(*                                                                         *)
(* A JSON value of a numeric setting is a record [t, n, s]: t is its JSON  *)
(* type, n the number (for a float, in hundredths; for a bool, 0 or 1) and *)
(* s the text of a string.  The request is a dict from setting names to    *)
(* values, or JsonNull when the body is not an object.  settings.json is   *)
(* read and written without error.                                         *)
(***************************************************************************)
JInt(n) == [t |-> "int", n |-> n, s |-> ""]

JFloat(hundredths) == [t |-> "float", n |-> hundredths, s |-> ""]

JStr(s) == [t |-> "str", n |-> 0, s |-> s]

JNull == [t |-> "null", n |-> 0, s |-> ""]

\* int(x) of Python: the integer, or ok = FALSE where int raises
\* ValueError or TypeError; a float is truncated toward zero
IntOf(x) ==
    CASE x.t = "int"   -> [ok |-> TRUE, n |-> x.n]
      [] x.t = "bool"  -> [ok |-> TRUE, n |-> x.n]
      [] x.t = "float" -> [ok |-> TRUE,
                           n |-> IF x.n >= 0 THEN x.n \div 100 ELSE -((-x.n) \div 100)]
      [] x.t = "str"   -> CASE x.s = "12"  -> [ok |-> TRUE, n |-> 12]
                            [] x.s = " 7 " -> [ok |-> TRUE, n |-> 7]
                            [] OTHER       -> [ok |-> FALSE, n |-> 0]
      [] OTHER         -> [ok |-> FALSE, n |-> 0]

Min(a, b) == IF a < b THEN a ELSE b

Max(a, b) == IF a > b THEN a ELSE b

\* a version that lets every number through
Unclamped(lo, hi, x) == x

\* max(lo, min(hi, x))
Clamp(lo, hi, x) == Max(lo, Min(hi, x))

\* dict.get(key, default)
Get(dict, key, default) == IF key \in DOMAIN dict THEN dict[key] ELSE default

SettingsKeys ==
    {"refresh_interval", "match_count", "top_apps_count", "debug_logging",
     "selected_device_id", "monitored_interface", "tony_mode"}

\* a version that keeps what is stored for a key the request leaves out
SettingsDataMerged(new_settings) ==
    [refresh_interval |->
         IF "refresh_interval" \in DOMAIN new_settings
         THEN Clamp(1, 60, IntOf(new_settings.refresh_interval).n)
         ELSE Get(settings, "refresh_interval", 5),
     match_count |->
         IF "match_count" \in DOMAIN new_settings
         THEN Clamp(1, 20, IntOf(new_settings.match_count).n)
         ELSE Get(settings, "match_count", 5),
     top_apps_count |->
         IF "top_apps_count" \in DOMAIN new_settings
         THEN Clamp(1, 10, IntOf(new_settings.top_apps_count).n)
         ELSE Get(settings, "top_apps_count", 5),
     debug_logging |->
         Get(new_settings, "debug_logging", Get(settings, "debug_logging", FALSE)),
     selected_device_id |->
         Get(new_settings, "selected_device_id", Get(settings, "selected_device_id", "")),
     monitored_interface |->
         Get(new_settings, "monitored_interface",
             Get(settings, "monitored_interface", "ethernet1/12")),
     tony_mode |-> Get(new_settings, "tony_mode", Get(settings, "tony_mode", FALSE))]

\* lines 379-411: the dict the POST saves
SettingsData(new_settings) ==
    [refresh_interval |->
         Clamp(1, 60, IntOf(Get(new_settings, "refresh_interval", JInt(5))).n),
     match_count |-> Clamp(1, 20, IntOf(Get(new_settings, "match_count", JInt(5))).n),
     top_apps_count |->
         Clamp(1, 10, IntOf(Get(new_settings, "top_apps_count", JInt(5))).n),
     debug_logging |-> Get(new_settings, "debug_logging", FALSE),
     selected_device_id |-> Get(new_settings, "selected_device_id", ""),
     monitored_interface |-> Get(new_settings, "monitored_interface", "ethernet1/12"),
     tony_mode |-> Get(new_settings, "tony_mode", FALSE)]

\* the request body that is no JSON object: new_settings.get raises
JsonNull == [body |-> "null"]

\* lines 374-381: TRUE when the handler reaches save_settings
Accepted(new_settings) ==
    /\ new_settings # JsonNull
    /\ IntOf(Get(new_settings, "refresh_interval", JInt(5))).ok
    /\ IntOf(Get(new_settings, "match_count", JInt(5))).ok
    /\ IntOf(Get(new_settings, "top_apps_count", JInt(5))).ok

NoSettingsResponse == [route |-> "", status |-> 0, settings |-> << >>]

\* config.load_settings: the content of settings.json
load_settings(file) == file

\* POST /api/settings: the answer and settings.json afterwards
post_settings(file, new_settings) ==
    IF Accepted(new_settings)
    THEN [response |-> [route |-> "post_settings", status |-> 200,
                        settings |-> <<SettingsData(new_settings)>>],
          file |-> SettingsData(new_settings)]
    ELSE [response |-> [route |-> "post_settings", status |-> 400, settings |-> << >>],
          file |-> file]

\* GET /api/settings
get_settings(file) ==
    [route |-> "get_settings", status |-> 200, settings |-> <<load_settings(file)>>]

\* the JSON bodies a client posts: any of the keys may be missing, and one
\* body has a key the handler does not know ("theme")
RefreshInputs == {JInt(-3), JInt(30), JInt(120), JStr("12"), JStr("abc"), JFloat(370)}

MatchInputs == {JInt(0), JInt(25)}

TopAppsInputs == {JInt(11), JNull}

FullSettings ==
    [refresh_interval : RefreshInputs, match_count : MatchInputs,
     top_apps_count : TopAppsInputs, debug_logging : {TRUE},
     selected_device_id : {"id-1"}, monitored_interface : {"ethernet1/1"},
     tony_mode : {TRUE}]

UnknownKeyRequest == [refresh_interval |-> JInt(30), theme |-> "dark"]

SettingsRequests ==
    {Restrict(j, F) : j \in FullSettings, F \in SUBSET SettingsKeys}
        \cup {UnknownKeyRequest, JsonNull}

GetSettings ==
    /\ settings_response' = get_settings(settings)
    /\ UNCHANGED <<rateVars, trendVars, deviceVars, migrated_count, codec, authVars, runVars, webVars>>

PostSettings ==
    /\ \E new_settings \in SettingsRequests :
          /\ settings_response' = post_settings(settings, new_settings).response
          /\ settings' = post_settings(settings, new_settings).file
    /\ UNCHANGED <<rateVars, trendVars, devices_file, next_id, result, response>>
    /\ UNCHANGED <<migrated_count, codec, authVars, runVars, webVars>>

NextSettings == GetSettings \/ PostSettings

(***************************************************************************)
(* auth.py: the single admin account in auth.json.                         *)
(*                                                                         *)
(* auth.json is [exists, data]: data is << >> while the file is absent,    *)
(* empty or not parseable as JSON, and <<dict>> once a dict has been       *)
(* written.  encrypt_dict and                                              *)
(* decrypt_dict are functions of encryption.py and follow the              *)
(* specification: they apply the codec to every string value and leave     *)
(* the booleans.  A bcrypt hash is the pair of the password hashed and the *)
(* salt; bcrypt.gensalt() returns any salt.  The file is written without   *)
(* error.                                                                  *)
(***************************************************************************)
Salts == {1, 2}

Usernames == {"admin", "root"}

Passwords == {"admin", "wrongpassword", "changed-1", "changed-2"}

hashpw(password, salt) == [password |-> password, salt |-> salt]

\* bcrypt.checkpw; a stored value that is no bcrypt hash raises, which
\* verify_password answers with False
checkpw(password, hashed_password) ==
    /\ hashed_password.enc = 0
    /\ hashed_password.txt.password = password

StringKeys == {"username", "password"}

encrypt_dict(data) ==
    [k \in DOMAIN data |-> IF k \in StringKeys THEN encrypt_string(data[k]) ELSE data[k]]

decrypt_dict(data) ==
    [k \in DOMAIN data |-> IF k \in StringKeys THEN decrypt_string(data[k]) ELSE data[k]]

NoAuthFile == [exists |-> FALSE, data |-> << >>]

NoAuthCall ==
    [op |-> "", username |-> "", password |-> "", value |-> FALSE, changed |-> FALSE]

\* a version whose account need not change its password
DefaultAuthDataUnflagged(salt) ==
    [username |-> Plain("admin"), password |-> Plain(hashpw("admin", salt)),
     must_change_password |-> FALSE]

\* init_auth_file, lines 25-31
DefaultAuthData(salt) ==
    [username |-> Plain("admin"), password |-> Plain(hashpw("admin", salt)),
     must_change_password |-> TRUE]

\* init_auth_file: auth.json afterwards
init_auth_file(file, salt) ==
    IF ~file.exists
    THEN [exists |-> TRUE, data |-> <<encrypt_dict(DefaultAuthData(salt))>>]
    ELSE file

\* load_auth_data: auth.json afterwards and the dict returned (<< >> is None).
\* An empty file exists, so init_auth_file leaves it, json.load raises and
\* the second attempt (lines 97-109) fails in the same way.
load_auth_data(file, salt) ==
    LET initialized == init_auth_file(file, salt)
    IN  IF initialized.data = << >>
        THEN [file |-> initialized, data |-> << >>]
        ELSE [file |-> initialized, data |-> <<decrypt_dict(initialized.data[1])>>]

\* save_auth_data: auth.json afterwards
save_auth_data(auth_data) == [exists |-> TRUE, data |-> <<encrypt_dict(auth_data)>>]

\* a version that accepts any password of any user
verify_password_any(file, username, password, salt) ==
    LET loaded == load_auth_data(file, salt)
    IN  [file |-> loaded.file, value |-> loaded.data # << >>]

verify_password(file, username, password, salt) ==
    LET loaded == load_auth_data(file, salt)
    IN  [file |-> loaded.file,
         value |-> /\ loaded.data # << >>
                   /\ Plain(username) = loaded.data[1].username
                   /\ checkpw(password, loaded.data[1].password)]

must_change_password(file, salt) ==
    LET loaded == load_auth_data(file, salt)
    IN  [file |-> loaded.file,
         value |-> loaded.data # << >> /\ loaded.data[1].must_change_password]

\* a version that reports success without saving the new hash
change_password_unsaved(file, username, old_password, new_password, salt, new_salt) ==
    LET verified == verify_password(file, username, old_password, salt)
    IN  [file |-> verified.file, value |-> verified.value]

change_password(file, username, old_password, new_password, salt, new_salt) ==
    LET verified == verify_password(file, username, old_password, salt)
        auth_data == load_auth_data(verified.file, salt).data[1]
    IN  IF ~verified.value
        THEN [file |-> verified.file, value |-> FALSE]
        ELSE [file |-> save_auth_data(
                           [auth_data EXCEPT
                               !.password = Plain(hashpw(new_password, new_salt)),
                               !.must_change_password = FALSE]),
              value |-> TRUE]

VerifyPassword ==
    /\ \E username \in Usernames, password \in Passwords, salt \in Salts :
          LET r == verify_password(auth_file, username, password, salt)
          IN  /\ auth_file' = r.file
              /\ auth_result' = [auth_result EXCEPT
                                    !.op = "verify_password", !.username = username,
                                    !.password = password, !.value = r.value]
    /\ UNCHANGED <<rateVars, trendVars, deviceVars, migrated_count, codec,
                   settings_response, runVars, webVars>>

MustChangePassword ==
    /\ \E salt \in Salts :
          LET r == must_change_password(auth_file, salt)
          IN  /\ auth_file' = r.file
              /\ auth_result' = [auth_result EXCEPT
                                    !.op = "must_change_password", !.username = "",
                                    !.password = "", !.value = r.value]
    /\ UNCHANGED <<rateVars, trendVars, deviceVars, migrated_count, codec,
                   settings_response, runVars, webVars>>

ChangePassword ==
    /\ \E username \in Usernames, old_password \in Passwords,
          new_password \in Passwords, salt \in Salts, new_salt \in Salts :
          LET r == change_password(auth_file, username, old_password, new_password,
                                   salt, new_salt)
          IN  /\ auth_file' = r.file
              /\ auth_result' = [op |-> "change_password", username |-> username,
                                 password |-> new_password, value |-> r.value,
                                 changed |-> auth_result.changed \/ r.value]
    /\ UNCHANGED <<rateVars, trendVars, deviceVars, migrated_count, codec,
                   settings_response, runVars, webVars>>

NextAuth == VerifyPassword \/ MustChangePassword \/ ChangePassword

(***************************************************************************)
(* migrate_api_keys.py: the one-time migration of the stored api keys.     *)
(*                                                                         *)
(* base64.b64decode of a plain string is given by a table over the key     *)
(* strings of the model: whether the string decodes, whether the bytes     *)
(* begin with 0x80 or b'gAAAAA', and the text the bytes give as UTF-8      *)
(* ("" with utf8 = FALSE when they are not UTF-8).                         *)
(***************************************************************************)
NotBase64 == [valid |-> FALSE, token |-> FALSE, utf8 |-> FALSE, text |-> ""]

b64decode(txt) ==
    CASE txt = "key-1"    -> [valid |-> TRUE, token |-> FALSE, utf8 |-> FALSE, text |-> ""]
      [] txt = "key-2"    -> [valid |-> TRUE, token |-> FALSE, utf8 |-> FALSE, text |-> ""]
      [] txt = "a2V5LTE=" -> [valid |-> TRUE, token |-> FALSE, utf8 |-> TRUE, text |-> "key-1"]
      [] txt = "LUFRPT0=" -> [valid |-> TRUE, token |-> FALSE, utf8 |-> TRUE, text |-> "-AQ=="]
      [] txt = "gAAA"     -> [valid |-> TRUE, token |-> TRUE, utf8 |-> FALSE, text |-> ""]
      [] OTHER            -> NotBase64

\* the wire format of the codec: base64 text whose bytes begin with b'gAAAAA'
WireIsToken(v) == v.enc > 0

\* a version that recognises no value
is_fernet_encrypted_never(value) == FALSE

is_fernet_encrypted(value) ==
    IF ~Truthy(value) THEN FALSE
    ELSE IF value.enc > 0 THEN WireIsToken(value)
    ELSE b64decode(value.txt).valid /\ b64decode(value.txt).token

\* lines 54-62: decrypt_string, then the old base64 format, then the key as it is
RecoveredKey(api_key) ==
    LET decrypted_key == decrypt_string(api_key)
    IN  IF decrypted_key = api_key /\ api_key.enc = 0
           /\ b64decode(api_key.txt).valid /\ b64decode(api_key.txt).utf8
        THEN Plain(b64decode(api_key.txt).text)
        ELSE decrypted_key

\* the body of "for device in devices": TRUE when the device is migrated
NeedsMigration(device) ==
    /\ Truthy(device.api_key)
    /\ ~is_fernet_encrypted(device.api_key)

MigratedDevice(device) ==
    IF NeedsMigration(device)
    THEN [device EXCEPT !.api_key = encrypt_string(RecoveredKey(@))]
    ELSE device

\* migrate_api_keys: the devices of devices.json afterwards and migrated_count
\* (the file is written only when migrated_count > 0)
migrate_api_keys(file) ==
    [devices |-> [i \in 1..Len(file) |-> MigratedDevice(file[i])],
     migrated_count |-> Cardinality({i \in 1..Len(file) : NeedsMigration(file[i])})]

MigrateCall ==
    /\ UNCHANGED rateVars
    /\ UNCHANGED trendVars
    /\ devices_file' = migrate_api_keys(devices_file).devices
    /\ migrated_count' = migrate_api_keys(devices_file).migrated_count
    /\ UNCHANGED <<codec, settings_response, authVars, runVars, webVars>>
    /\ result' = [op |-> "migrate_api_keys", ok |-> TRUE, devices |-> << >>]
    /\ UNCHANGED <<settings, next_id, response>>

(***************************************************************************)
(* auth.py and routes.py: the session and the routes behind                *)
(* login_required.  The session is the one of a single client; cleared,   *)
(* it has no keys, which reads as logged_in false and no username.         *)
(* served is [path, logged_in, answer]: logged_in is what the session said *)
(* when the request came in, answer is "handler" when the route's function *)
(* ran, and otherwise the status sent instead.                             *)
(***************************************************************************)
NoSession == [logged_in |-> FALSE, username |-> ""]

NoRequest == [path |-> "", logged_in |-> FALSE, answer |-> "none"]

\* the usernames a login request carries, stripped
LoginNames == Usernames \cup {""}

\* request.path.startswith('/api/')
StartsWithApi(path) ==
    path \in {"/api/login", "/api/logout", "/api/session-keepalive",
              "/api/change-password", "/api/devices"}

create_session(username) == [logged_in |-> TRUE, username |-> username]

destroy_session == NoSession

\* a decorator that lets every request through
login_required_open(path, sess) == "handler"

\* decorated_function: what becomes of a request to path
login_required(path, sess) ==
    IF ~sess.logged_in
    THEN IF StartsWithApi(path) THEN "401" ELSE "redirect"
    ELSE "handler"

\* a route behind @login_required: Handler is its function, touched the
\* variables the function may write
Protected(path, Handler, touched) ==
    /\ served' = [path |-> path, logged_in |-> session.logged_in,
                  answer |-> login_required(path, session)]
    /\ IF login_required(path, session) = "handler"
       THEN Handler
       ELSE UNCHANGED touched

\* POST /api/login
Login ==
    /\ \E username \in LoginNames, password \in Passwords, salt \in Salts :
          IF username = ""
          THEN /\ served' = [path |-> "/api/login", logged_in |-> session.logged_in,
                             answer |-> "400"]
               /\ UNCHANGED <<session, authVars>>
          ELSE LET verified == verify_password(auth_file, username, password, salt)
               IN  /\ auth_file' = IF verified.value
                                   THEN must_change_password(verified.file, salt).file
                                   ELSE verified.file
                   /\ auth_result' = [auth_result EXCEPT
                                         !.op = "login", !.username = username,
                                         !.password = password, !.value = verified.value]
                   /\ session' = IF verified.value THEN create_session(username)
                                 ELSE session
                   /\ served' = [path |-> "/api/login", logged_in |-> session.logged_in,
                                 answer |-> IF verified.value THEN "200" ELSE "401"]
    /\ UNCHANGED <<rateVars, trendVars, deviceVars, migrated_count, codec,
                   settings_response, runVars, stage_data, baseline_from>>

\* POST /api/logout
Logout ==
    /\ Protected("/api/logout", session' = destroy_session, session)
    /\ UNCHANGED <<rateVars, trendVars, deviceVars, migrated_count, codec,
                   settings_response, authVars, runVars, stage_data, baseline_from>>

\* GET /api/session-keepalive
SessionKeepalive ==
    /\ Protected("/api/session-keepalive", TRUE, << >>)
    /\ UNCHANGED <<rateVars, trendVars, deviceVars, migrated_count, codec,
                   settings_response, authVars, runVars, stage_data, baseline_from, session>>

\* GET /
Index ==
    /\ Protected("/", TRUE, << >>)
    /\ UNCHANGED <<rateVars, trendVars, deviceVars, migrated_count, codec,
                   settings_response, authVars, runVars, stage_data, baseline_from, session>>

\* change_password_route: the function behind POST /api/change-password
change_password_route(old_password, new_password, salt, new_salt) ==
    IF Len(new_password) < 8
    THEN UNCHANGED authVars
    ELSE LET r == change_password(auth_file, session.username, old_password,
                                  new_password, salt, new_salt)
         IN  /\ auth_file' = r.file
             /\ auth_result' = [op |-> "change_password", username |-> session.username,
                                password |-> new_password, value |-> r.value,
                                changed |-> auth_result.changed \/ r.value]

\* POST /api/change-password
ChangePasswordRoute ==
    /\ \E old_password \in Passwords, new_password \in Passwords,
          salt \in Salts, new_salt \in Salts :
          Protected("/api/change-password",
                    change_password_route(old_password, new_password, salt, new_salt),
                    authVars)
    /\ UNCHANGED <<rateVars, trendVars, deviceVars, migrated_count, codec,
                   settings_response, runVars, stage_data, baseline_from, session>>

\* POST /api/devices behind the decorator
PostDevice ==
    /\ \E data \in [name : NameInputs, ip : Addresses, api_key : KeyInputs,
                    group : Groups] :
          Protected("/api/devices", api_create_device(data), deviceVars)
    /\ UNCHANGED <<rateVars, trendVars, migrated_count, codec, settings_response,
                   authVars, runVars, stage_data, baseline_from, session>>

\* DELETE /api/devices/<device_id> behind the decorator
DeleteDeviceRequest ==
    /\ \E device_id \in DeviceIds :
          Protected("/api/devices", api_delete_device(device_id), deviceVars)
    /\ UNCHANGED <<rateVars, trendVars, migrated_count, codec, settings_response,
                   authVars, runVars, stage_data, baseline_from, session>>

NextSession == Login \/ Logout \/ SessionKeepalive \/ Index \/ ChangePasswordRoute

(***************************************************************************)
(* get_throughput_data: the firewall a poll queries and the key it stores  *)
(* the baseline under.  baseline_from[key] is [address, own]: the address  *)
(* the stored counters were fetched from, and the address the device with  *)
(* the id key had at that poll ("" when no stored device had that id).     *)
(***************************************************************************)
DEFAULT_FIREWALL_IP == "192.168.10.253"

\* get_firewall_config(): the firewall_ip it returns
get_firewall_config(file, settings_file) ==
    LET firewall_ip == Get(settings_file, "firewall_ip", DEFAULT_FIREWALL_IP)
        selected_device_id == Get(settings_file, "selected_device_id", "")
        device == get_device(file, selected_device_id)
    IN  IF /\ selected_device_id # ""
           /\ device # << >>
           /\ Get(device[1], "enabled", TRUE)
        THEN device[1].ip
        ELSE firewall_ip

\* the address of the stored device with this id
OwnAddress(file, device_id) ==
    LET device == get_device(file, device_id)
    IN  IF device = << >> THEN "" ELSE device[1].ip

\* get_throughput_data for the selected device, the counter query having
\* answered 200; the polls are one second apart
PollSelected ==
    /\ ncalls < MaxCalls
    /\ ncalls' = ncalls + 1
    /\ LET selected_device_id == Get(load_settings(settings), "selected_device_id", "")
           firewall_ip == get_firewall_config(devices_file, load_settings(settings))
           device_key == IF selected_device_id # "" THEN selected_device_id ELSE firewall_ip
       IN  \E total \in PollSamples :
               /\ GetThroughputData(device_key, total, ncalls + 1, ncalls + 1)
               /\ baseline_from' =
                      (device_key :> [address |-> firewall_ip,
                                      own |-> OwnAddress(devices_file, device_key)])
                      @@ baseline_from
    /\ UNCHANGED <<trendVars, deviceVars, migrated_count, codec, settings_response,
                   authVars, runVars, stage_data, session, served>>

NextProvenance == CreateDevice \/ UpdateDevice \/ DeleteDevice \/ PollSelected

(***************************************************************************)
(* get_throughput_data: the stages after the baseline update.  Each stage  *)
(* is a function of firewall_api.py that queries the firewall on its own;  *)
(* its answer is "ok", "http_error" (a status other than 200) or "raised"  *)
(* (the request timed out or failed, or the XML did not parse).  A call    *)
(* yields [raised, value]: raised is TRUE when the exception leaves the    *)
(* function.                                                               *)
(***************************************************************************)
StageAnswers == {"ok", "http_error", "raised"}

StageOrder == <<"sessions", "cpu", "threats", "system_logs", "interfaces",
                "top_applications", "license">>

StageNames == {StageOrder[i] : i \in 1..Len(StageOrder)}

\* the values of match_count in settings.json
MatchCounts == {1, 5}

\* the answers of the stages in one poll: at most MaxFailing stages do not succeed
StageAnswerSets ==
    {a \in [StageNames -> StageAnswers] :
        Cardinality({n \in StageNames : a[n] # "ok"}) <= MaxFailing}

StageReturned(value) == [raised |-> FALSE, value |-> value]

StageRaised == [raised |-> TRUE, value |-> << >>]

ZeroSessions == [active |-> 0, tcp |-> 0, udp |-> 0, icmp |-> 0]

\* a get_session_count without its try/except
get_session_count_uncaught(answer) ==
    CASE answer = "ok" -> StageReturned([active |-> 12, tcp |-> 8, udp |-> 3, icmp |-> 1])
      [] answer = "http_error" -> StageReturned(ZeroSessions)
      [] OTHER -> StageRaised

get_session_count(answer) ==
    CASE answer = "ok" -> StageReturned([active |-> 12, tcp |-> 8, udp |-> 3, icmp |-> 1])
      [] answer = "http_error" -> StageReturned(ZeroSessions)
      [] OTHER -> StageReturned(ZeroSessions)

ZeroResources == [data_plane_cpu |-> 0, mgmt_plane_cpu |-> 0, memory_used_pct |-> 0,
                  memory_used_mb |-> 0, memory_total_mb |-> 0]

\* with every query of the stage answering alike
get_system_resources(answer) ==
    CASE answer = "ok" -> StageReturned([data_plane_cpu |-> 7, mgmt_plane_cpu |-> 4,
                                    memory_used_pct |-> 50, memory_used_mb |-> 2048,
                                    memory_total_mb |-> 4096])
      [] answer = "http_error" -> StageReturned(ZeroResources)
      [] OTHER -> StageReturned(ZeroResources)

ZeroThreats == [medium_threats |-> 0, critical_threats |-> 0, blocked_urls |-> 0,
                url_filtering_total |-> 0, critical_logs |-> << >>, medium_logs |-> << >>,
                blocked_url_logs |-> << >>]

get_threat_stats(answer, max_logs) ==
    CASE answer = "ok" -> StageReturned([medium_threats |-> 2, critical_threats |-> 1,
                                    blocked_urls |-> 0, url_filtering_total |-> 3,
                                    critical_logs |-> <<"c1">>,
                                    medium_logs |-> SubSeq(<<"m1", "m2">>, 1, Min(2, max_logs)),
                                    blocked_url_logs |-> << >>])
      [] answer = "http_error" -> StageReturned(ZeroThreats)
      [] OTHER -> StageReturned(ZeroThreats)

get_system_logs(answer) ==
    CASE answer = "ok" -> StageReturned(<<"log-1", "log-2">>)
      [] answer = "http_error" -> StageReturned(<< >>)
      [] OTHER -> StageReturned(<< >>)

ZeroInterfaces == [interfaces |-> << >>, total_errors |-> 0, total_drops |-> 0]

get_interface_stats(answer) ==
    CASE answer = "ok" -> StageReturned([interfaces |-> <<"ethernet1/1">>, total_errors |-> 4,
                                    total_drops |-> 1])
      [] answer = "http_error" -> StageReturned(ZeroInterfaces)
      [] OTHER -> StageReturned(ZeroInterfaces)

ZeroApps == [apps |-> << >>, total_count |-> 0]

get_top_applications(answer, top_count) ==
    CASE answer = "ok" -> StageReturned([apps |-> SubSeq(<<"ssl", "dns">>, 1, Min(2, top_count)),
                                    total_count |-> 2])
      [] answer = "http_error" -> StageReturned(ZeroApps)
      [] OTHER -> StageReturned(ZeroApps)

ZeroLicense == [expired |-> 0, licensed |-> 0, licenses |-> << >>]

\* the dict get_license_info returns, under its 'license' key
get_license_info(answer) ==
    CASE answer = "ok" -> StageReturned([expired |-> 0, licensed |-> 1, licenses |-> <<"Threat Prevention">>])
      [] answer = "http_error" -> StageReturned(ZeroLicense)
      [] OTHER -> StageReturned(ZeroLicense)

\* what a stage contributes when its query did not succeed
StageDefault ==
    [sessions |-> ZeroSessions, cpu |-> ZeroResources, threats |-> ZeroThreats,
     system_logs |-> << >>, interfaces |-> ZeroInterfaces, top_applications |-> ZeroApps,
     license |-> ZeroLicense]

\* the call of one stage and what get_throughput_data makes of its value
StageCall(name, answer, max_logs, top_apps_count) ==
    CASE name = "sessions" -> get_session_count(answer)
      [] name = "cpu" -> get_system_resources(answer)
      [] name = "threats" -> get_threat_stats(answer, max_logs)
      [] name = "system_logs" ->
            LET r == get_system_logs(answer)
            IN  IF r.raised THEN r
                ELSE StageReturned(SubSeq(r.value, 1, Min(Len(r.value), max_logs)))
      [] name = "interfaces" -> get_interface_stats(answer)
      [] name = "top_applications" -> get_top_applications(answer, top_apps_count)
      [] OTHER -> get_license_info(answer)

NoStageData == [status |-> "none", answers |-> << >>, ran |-> {}, values |-> << >>]

\* The stages run in order; an exception that leaves a stage ends the function
\* in its outer except, which returns {'status': 'error', ...}.
RunStages(answers, max_logs, top_apps_count) ==
    LET called == [i \in 1..Len(StageOrder) |->
                      StageCall(StageOrder[i], answers[StageOrder[i]], max_logs, top_apps_count)]
        failing == {i \in 1..Len(StageOrder) : called[i].raised}
        last == IF failing = {} THEN Len(StageOrder)
                ELSE CHOOSE i \in failing : \A j \in failing : i <= j
        ran == {StageOrder[i] : i \in 1..last}
    IN  [status |-> IF failing = {} THEN "success" ELSE "error",
         answers |-> answers,
         ran |-> ran,
         values |-> IF failing = {}
                    THEN [n \in StageNames |->
                            called[CHOOSE i \in 1..Len(StageOrder) : StageOrder[i] = n].value]
                    ELSE << >>]

\* get_throughput_data as a whole for the key PollKey, the counter query
\* having answered 200; the polls are one second apart
PollStages ==
    /\ ncalls < MaxCalls
    /\ ncalls' = ncalls + 1
    /\ \E total \in PollSamples, answers \in StageAnswerSets, max_logs \in MatchCounts :
        \E current_time \in {ncalls + 1} :
            LET stats0 == EnsureStats(previous_stats, PollKey, current_time)
                device_stats == stats0[PollKey]
                res == ThroughputResult(device_stats, total, current_time)
                staged == RunStages(answers, max_logs, 5)
            IN  /\ previous_stats' = UpdateStats(stats0, PollKey, total, current_time)
                /\ rates' = res.rates
                /\ throughput' = IF staged.status = "success" THEN res.snapshot
                                  ELSE [NoThroughput EXCEPT !.status = "error"]
                /\ stage_data' = staged
                /\ call' = [op |-> "sample", key |-> PollKey, total |-> total,
                            now |-> current_time,
                            had |-> PollKey \in DOMAIN previous_stats,
                            elapsed |-> IF PollKey \in DOMAIN previous_stats
                                        THEN current_time - device_stats.timestamp ELSE 0,
                            reset |-> \E c \in CounterNames : total[c] < device_stats[c]]
    /\ UNCHANGED <<trendVars, deviceVars, migrated_count, codec, settings_response,
                   authVars, runVars, session, served, baseline_from>>

InitDevices ==
    /\ devices_file = << >>
    /\ settings = DEFAULT_SETTINGS
    /\ next_id = 0
    /\ result = NoResult
    /\ response = NoResponse

\* A devices.json left by an earlier version or written under another key:
\* an api_key in it may be a string decrypt_string does not decode (here the
\* plain key), which load_devices then hands on as it is stored.
LegacyKeys == {Plain("key-1"), encrypt_string(Plain("key-1"))}

LegacyDevice(n, api_key) == NewDevice(IdPool[n], "fw-a", "10.0.0.1", api_key, "Default")

LegacyFiles ==
    {<<LegacyDevice(1, k)>> : k \in LegacyKeys}
        \cup {<<LegacyDevice(1, k1), LegacyDevice(2, k2)>> : k1, k2 \in LegacyKeys}

InitLegacy ==
    /\ devices_file \in LegacyFiles
    /\ settings = DEFAULT_SETTINGS
    /\ next_id = Len(devices_file)
    /\ result = NoResult
    /\ response = NoResponse

\* A devices.json from before the migration: up to MaxStored devices whose
\* api_key is empty, plain, in the old base64 format, or in the current format
MigrationKeys ==
    {Plain(""), Plain("key-1"), Plain("a2V5LTE="), Plain("LUFRPT0="), Plain("gAAA"),
     encrypt_string(Plain("key-1"))}

StoredFiles ==
    UNION {[1..n -> MigrationKeys] : n \in 0..MaxStored}

InitMigrate ==
    /\ \E keys \in StoredFiles :
          devices_file = [i \in 1..Len(keys) |-> LegacyDevice(i, keys[i])]
    /\ settings = DEFAULT_SETTINGS
    /\ next_id = Len(devices_file)
    /\ result = NoResult
    /\ response = NoResponse

InitRun ==
    /\ writers = [t \in Threads |-> IdleWriter]
    /\ store_log = NoStoreLog
    /\ pollers = [t \in Threads |-> IdlePoller]
    /\ poll_log = NoPollLog

InitWeb ==
    /\ stage_data = NoStageData
    /\ session = NoSession
    /\ served = NoRequest
    /\ baseline_from = << >>

InitAdmin ==
    /\ migrated_count = 0
    /\ codec = NoCodecCall
    /\ settings_response = NoSettingsResponse
    /\ auth_file = NoAuthFile
    /\ auth_result = NoAuthCall
    /\ InitRun
    /\ InitWeb

\* An auth.json left by an earlier run: absent, or there but empty or corrupt
UnreadableAuthFile == [exists |-> TRUE, data |-> << >>]

InitAuthLeft ==
    /\ migrated_count = 0
    /\ codec = NoCodecCall
    /\ settings_response = NoSettingsResponse
    /\ auth_file \in {NoAuthFile, UnreadableAuthFile}
    /\ auth_result = NoAuthCall
    /\ InitRun
    /\ InitWeb

NextMigrate == MigrateCall \/ AddDeviceCall \/ DeleteDeviceCall

NextStore == AddDeviceCall \/ UpdateDeviceCall \/ DeleteDeviceCall

NextRoutes == GetDevices \/ CreateDevice \/ GetDevice \/ UpdateDevice \/ DeleteDevice

Init == InitRate /\ InitTrend /\ InitDevices /\ InitAdmin

Next == NextRate \/ NextTrend \/ NextStore \/ NextRoutes \/ MigrateCall \/ NextCodec
            \/ NextSettings \/ NextAuth \/ WriterStep \/ PollerStep \/ PollStages
            \/ NextSession \/ PostDevice \/ DeleteDeviceRequest \/ PollSelected

SpecRate == Init /\ [][NextRate]_vars

SpecTrend == Init /\ [][NextTrend]_vars

SpecStore == Init /\ [][NextStore]_vars

SpecRoutes == Init /\ [][NextRoutes]_vars

NextSelect == Login \/ Logout \/ PostDevice \/ DeleteDeviceRequest

SpecSelect == Init /\ [][NextSelect]_vars

SpecSession == Init /\ [][NextSession]_vars

SpecProvenance == Init /\ [][NextProvenance]_vars

InitLegacyStore == InitRate /\ InitTrend /\ InitLegacy /\ InitAdmin

InitMigration == InitRate /\ InitTrend /\ InitMigrate /\ InitAdmin

SpecCodec == Init /\ [][NextCodec]_vars

SpecSettings == Init /\ [][NextSettings]_vars

SpecAuth == Init /\ [][NextAuth]_vars

InitLeft == InitRate /\ InitTrend /\ InitDevices /\ InitAuthLeft

SpecAuthLeft == InitLeft /\ [][NextAuth]_vars

SpecStages == Init /\ [][PollStages]_vars

SpecPollers == Init /\ [][PollerStep]_vars

SpecWriters == Init /\ [][WriterStep]_vars

SpecLegacy == InitLegacyStore /\ [][NextStore]_vars

SpecMigrate == InitMigration /\ [][NextMigrate]_vars

Spec == Init /\ [][Next]_vars

(***************************************************************************)
(* Properties of get_throughput_data                                       *)
(***************************************************************************)
RateNames == {"inbound_mbps", "outbound_mbps", "total_mbps",
              "inbound_pps", "outbound_pps", "total_pps"}

\* the record UpdateStats stores for a sample
BaselineOf(total, t) ==
    [ibytes |-> total.ibytes, obytes |-> total.obytes,
     ipkts |-> total.ipkts, opkts |-> total.opkts, timestamp |-> t]

AllRatesZero ==
    /\ \A n \in RateNames : RatEq(rates[n], Zero)
    /\ \A n \in RateNames : throughput[n] = 0

\* the rate of counter c: its rate local, bytes in Mbps and packets per second
CounterRate(r, c) ==
    CASE c = "ibytes" -> r.inbound_mbps
      [] c = "obytes" -> r.outbound_mbps
      [] c = "ipkts" -> r.inbound_pps
      [] c = "opkts" -> r.outbound_pps

\* max(0, delta) / elapsed, and / 125000 for the byte counters
ExpectedRate(prev, total, elapsed, c) ==
    LET delta == IF total[c] - prev[c] > 0 THEN total[c] - prev[c] ELSE 0
    IN  IF c \in {"ibytes", "obytes"} THEN <<delta, elapsed * 125000>> ELSE <<delta, elapsed>>

\* C1: the first sample of a key that has no stored baseline returns zero for
\* every rate and leaves its counters and timestamp stored as the key's baseline.
C1_FirstSample ==
    (call.op = "sample" /\ ~call.had) =>
        /\ AllRatesZero
        /\ throughput.status = "success"
        /\ call.key \in DOMAIN previous_stats
        /\ previous_stats[call.key] = BaselineOf(call.total, call.now)

C1_Witness ==
    /\ call.op = "sample" /\ ~call.had
    /\ call.total.ibytes > 0 /\ call.total.obytes > 0 /\ call.now > 0

\* C2: for every sample of a key that has a stored previous sample and a positive
\* elapsed time, whatever the previous and current counters, each byte rate is
\* max(0, delta) / elapsed / 125000, each packet rate max(0, delta) / elapsed, and
\* the totals are the sums.
C2_RateFormula ==
    [][(call'.op = "sample" /\ call'.had /\ call'.elapsed > 0) =>
        LET prev == previous_stats[call'.key]
            e == call'.elapsed
            X(c) == ExpectedRate(prev, call'.total, e, c)
        IN  /\ \A c \in CounterNames : RatEq(CounterRate(rates', c), X(c))
            /\ RatEq(rates'.total_mbps, RatAdd(X("ibytes"), X("obytes")))
            /\ RatEq(rates'.total_pps, RatAdd(X("ipkts"), X("opkts")))]_vars

\* C3: when a counter of a sample is lower than its stored baseline value, the
\* rate of that counter is 0, while the rate of every other counter is still
\* computed from that counter's own delta.
C3_CounterReset ==
    [][(call'.op = "sample" /\ call'.had /\ call'.elapsed > 0) =>
        LET prev == previous_stats[call'.key]
        IN  \A c \in CounterNames :
                call'.total[c] < prev[c] =>
                    /\ RatEq(CounterRate(rates', c), Zero)
                    /\ \A d \in CounterNames \ {c} :
                           call'.total[d] >= prev[d] =>
                               RatEq(CounterRate(rates', d),
                                     ExpectedRate(prev, call'.total, call'.elapsed, d))]_vars

\* C4: after every sample for key K whose counter query succeeded with positive
\* elapsed time, a counter reset included, the baseline stored for K is exactly
\* the four counters and the timestamp of that sample, and the baselines of all
\* other keys are unchanged.  (A first sample is measured against the record the
\* call has just initialised; it is covered here whatever its elapsed time.)
C4_BaselineUpdate ==
    [][(call'.op = "sample" /\ (call'.had => call'.elapsed > 0)) =>
        /\ call'.key \in DOMAIN previous_stats'
        /\ previous_stats'[call'.key] = BaselineOf(call'.total, call'.now)
        /\ \A k \in DeviceKeys \ {call'.key} :
               /\ (k \in DOMAIN previous_stats') = (k \in DOMAIN previous_stats)
               /\ k \in DOMAIN previous_stats => previous_stats'[k] = previous_stats[k]]_vars

C4_Witness ==
    /\ call.op = "sample" /\ call.had /\ call.elapsed > 0 /\ call.reset
    /\ previous_stats[call.key] = BaselineOf(call.total, call.now)

C6_RatesNonNegative ==
    throughput.status = "success" => \A n \in RateNames : throughput[n] >= 0

C6_Witness ==
    /\ throughput.status = "success" /\ call.had /\ call.reset /\ call.elapsed > 0
    /\ throughput.outbound_mbps > 0

(***************************************************************************)
(* Properties of the hit-count trend                                       *)
(***************************************************************************)
\* C7: after any sequence of hit-count observations, the history kept for each
\* rule name holds at most 5 values and equals the most recent min(n, 5)
\* observations of that name in arrival order.
C7_HistoryBound ==
    \A name \in RuleNames :
        LET log == obs_log[name]
            n == Len(log)
        IN  IF n = 0 THEN name \notin DOMAIN policy_history
            ELSE /\ name \in DOMAIN policy_history
                 /\ Len(policy_history[name]) <= 5
                 /\ Len(policy_history[name]) = (IF n < 5 THEN n ELSE 5)
                 /\ \A k \in 1..Len(policy_history[name]) :
                        policy_history[name][k] = log[n - Len(policy_history[name]) + k]

C7_Witness ==
    \E name \in RuleNames :
        /\ Len(obs_log[name]) > 5
        /\ obs_log[name][1] # obs_log[name][6]
        /\ Len(policy_history[name]) = 5

\* the trend the claim gives a history: rising is the code's 'up', falling its
\* 'down', unknown its None
ClaimedTrend(h) ==
    IF Len(h) < 2 THEN "None"
    ELSE LET latest == h[Len(h)]
             priors == Len(h) - 1
             priorSum == Sum(h) - latest
         IN  \* latest against mean * 1.10 and mean * 0.90, mean = priorSum / priors
             IF latest * priors * 100 > priorSum * 110 THEN "up"
             ELSE IF latest * priors * 100 < priorSum * 90 THEN "down"
             ELSE "stable"

KeyCiphertexts == {encrypt_string(Plain(k)) : k \in ApiKeys}

\* C9: whatever add_device, update_device and delete_device calls have been
\* made, every non-empty api_key in the devices file is the ciphertext of a
\* key, and the device a call has just added or updated is stored with the
\* ciphertext of the key the call returned, never with that key string itself.
C9_NoPlaintextAtRest ==
    /\ \A i \in 1..Len(devices_file) :
           Truthy(devices_file[i].api_key) =>
               /\ devices_file[i].api_key.enc > 0
               /\ devices_file[i].api_key \in KeyCiphertexts
    /\ result.devices # << >> =>
           LET d == result.devices[1]
           IN  \E i \in 1..Len(devices_file) :
                   /\ devices_file[i].id = d.id
                   /\ Truthy(d.api_key) =>
                          /\ devices_file[i].api_key = encrypt_string(d.api_key)
                          /\ devices_file[i].api_key # d.api_key

\* two devices are stored, and update_device has just replaced the key of one
C9_Witness ==
    /\ Len(devices_file) = 2
    /\ result.op = "update_device"
    /\ result.devices # << >>
    /\ result.devices[1].api_key = Plain("key-2")
    /\ \E i \in 1..2 :
           /\ devices_file[i].id = result.devices[1].id
           /\ devices_file[i].api_key = encrypt_string(Plain("key-2"))
    /\ \E i \in 1..2 : devices_file[i].api_key = encrypt_string(Plain("key-1"))

\* C10: no response of a device endpoint (list, get, create, update) carries
\* a device whose api_key is the plain key: every non-empty api_key in a
\* response is a ciphertext.
C10_NoPlaintextInResponses ==
    \A i \in 1..Len(response.devices) :
        Truthy(response.devices[i].api_key) => response.devices[i].api_key.enc > 0

\* the ids of the stored devices are pairwise distinct
DistinctIds(file) ==
    \A i, j \in 1..Len(file) : file[i].id = file[j].id => i = j

\* C11: after any add_device, update_device (with any map of updates) and
\* delete_device calls the stored devices have pairwise distinct ids, and an
\* update_device call leaves the id of every stored device as it was.
C11_DeviceIdentity ==
    [][/\ DistinctIds(devices_file')
       /\ result'.op = "update_device" =>
              /\ Len(devices_file') = Len(devices_file)
              /\ \A i \in 1..Len(devices_file) :
                     devices_file'[i].id = devices_file[i].id]_vars

AddArgs == [name : DeviceNames, ip : Addresses, api_key : ApiKeys, group : Groups]

\* C13: whatever the store holds, after update_device(id, updates) with a
\* non-empty api_key k among the updates, and after add_device with a
\* non-empty key k, load_devices with decryption returns exactly k for that
\* device, and so does get_device(id) when the updates leave the id alone,
\* while the api_key in the file differs from k.
C13_KeyRoundTrip ==
    /\ \A device_id \in DeviceIds, updates \in Updates :
          (/\ "api_key" \in DOMAIN updates
           /\ Truthy(updates.api_key)
           /\ FirstIndex(devices_file, device_id) # 0)
          => LET i == FirstIndex(devices_file, device_id)
                 file == update_device(devices_file, device_id, updates)
             IN  /\ load_devices(file, TRUE)[i].api_key = updates.api_key
                 /\ file[i].api_key # updates.api_key
                 /\ "id" \notin DOMAIN updates =>
                        get_device(file, device_id)[1].api_key = updates.api_key
    /\ \A a \in AddArgs :
          next_id < Len(IdPool)
          => LET new_device == NewDevice(IdPool[next_id + 1], a.name, a.ip,
                                         Plain(a.api_key), a.group)
                 file == add_device(devices_file, new_device)
                 n == Len(file)
             IN  /\ n = Len(devices_file) + 1
                 /\ load_devices(file, TRUE)[n].api_key = Plain(a.api_key)
                 /\ file[n].api_key # Plain(a.api_key)
                 /\ get_device(file, new_device.id)[1].api_key = Plain(a.api_key)

\* a device added with key-1 has had its key replaced by key-2
C13_Witness ==
    /\ Len(devices_file) = 1
    /\ result.op = "update_device"
    /\ result.ok
    /\ result.devices[1].name = "fw-a"
    /\ result.devices[1].api_key = Plain("key-2")
    /\ devices_file[1].api_key = encrypt_string(Plain("key-2"))
    /\ get_device(devices_file, devices_file[1].id)[1].api_key = Plain("key-2")

\* the devices as load_devices(decrypt_api_keys=True) returns them
Decrypted(file) == load_devices(file, TRUE)

RemoveAt(file, i) == [j \in 1..(Len(file) - 1) |-> IF j < i THEN file[j] ELSE file[j + 1]]

\* C15: delete_device with an id that no stored device has (no device goes
\* away) returns false and leaves the stored devices unchanged; delete_device
\* with an existing id returns true and removes exactly that device.
C15_DeleteDevice ==
    [][result'.op = "delete_device" =>
          IF Len(devices_file') = Len(devices_file)
          THEN /\ ~result'.ok
               /\ devices_file' = devices_file
          ELSE /\ result'.ok
               /\ \E i \in 1..Len(devices_file) :
                      devices_file' = RemoveAt(devices_file, i)]_vars

InRange(data) ==
    /\ data.refresh_interval \in 1..60
    /\ data.match_count \in 1..20
    /\ data.top_apps_count \in 1..10

\* the nearest number of lo..hi to x
Nearest(lo, hi, x) == IF x < lo THEN lo ELSE IF x > hi THEN hi ELSE x

\* C18: settings clamping.  After any accepted settings POST (status 200) the
\* persisted refresh_interval is within 1..60, match_count within 1..20 and
\* top_apps_count within 1..10, a posted number outside its range is replaced
\* by the nearest bound, and a GET right after the POST returns exactly the
\* persisted values.
C18_SettingsClamped ==
    /\ \A new_settings \in SettingsRequests :
          LET post == post_settings(settings, new_settings)
          IN  post.response.status = 200 =>
                  /\ InRange(post.file)
                  /\ "refresh_interval" \in DOMAIN new_settings =>
                         post.file.refresh_interval =
                             Nearest(1, 60, IntOf(new_settings.refresh_interval).n)
                  /\ "match_count" \in DOMAIN new_settings =>
                         post.file.match_count =
                             Nearest(1, 20, IntOf(new_settings.match_count).n)
                  /\ "top_apps_count" \in DOMAIN new_settings =>
                         post.file.top_apps_count =
                             Nearest(1, 10, IntOf(new_settings.top_apps_count).n)
                  /\ get_settings(post.file).settings = <<post.file>>
    /\ settings_response.status = 200 => settings_response.settings = <<settings>>
    /\ (settings_response.route = "post_settings" /\ settings_response.status = 200)
           => InRange(settings)

\* a POST with refresh_interval 120 has been accepted and 60 is persisted
C18_Witness ==
    /\ settings_response.route = "post_settings"
    /\ settings_response.status = 200
    /\ settings.refresh_interval = 60
    /\ settings.match_count = 1
    /\ settings.top_apps_count = 10
    /\ post_settings(settings, [refresh_interval |-> JInt(120)]).file.refresh_interval = 60

\* the defaults of the settings a request may leave out
PostDefaults ==
    [debug_logging |-> FALSE, selected_device_id |-> "",
     monitored_interface |-> "ethernet1/12", tony_mode |-> FALSE]

\* C19: a settings save overwrites.  After an accepted settings POST the
\* persisted record has exactly the keys refresh_interval, match_count,
\* top_apps_count, debug_logging, selected_device_id, monitored_interface and
\* tony_mode, each taken from the request (the numbers after int() and
\* clamping) or from its default when the request leaves it out, whatever
\* was stored before the POST.
C19_SettingsOverwritten ==
    /\ \A new_settings \in SettingsRequests :
          LET post == post_settings(settings, new_settings)
          IN  post.response.status = 200 =>
                  /\ DOMAIN post.file = SettingsKeys
                  /\ \A k \in DOMAIN PostDefaults :
                         post.file[k] = IF k \in DOMAIN new_settings
                                        THEN new_settings[k]
                                        ELSE PostDefaults[k]
                  /\ post.file.refresh_interval =
                         IF "refresh_interval" \in DOMAIN new_settings
                         THEN Nearest(1, 60, IntOf(new_settings.refresh_interval).n)
                         ELSE 5
                  /\ post.file.match_count =
                         IF "match_count" \in DOMAIN new_settings
                         THEN Nearest(1, 20, IntOf(new_settings.match_count).n)
                         ELSE 5
                  /\ post.file.top_apps_count =
                         IF "top_apps_count" \in DOMAIN new_settings
                         THEN Nearest(1, 10, IntOf(new_settings.top_apps_count).n)
                         ELSE 5
    /\ (settings_response.route = "post_settings" /\ settings_response.status = 200)
           => DOMAIN settings = SettingsKeys

\* a POST has stored values other than the defaults, and a POST that leaves
\* those keys out puts the defaults back
C19_Witness ==
    /\ settings_response.route = "post_settings"
    /\ settings_response.status = 200
    /\ settings.tony_mode = TRUE
    /\ settings.selected_device_id = "id-1"
    /\ settings.match_count = 20
    /\ LET post == post_settings(settings, [refresh_interval |-> JInt(30)])
       IN  /\ post.response.status = 200
           /\ post.file.tony_mode = FALSE
           /\ post.file.selected_device_id = ""
           /\ post.file.match_count = 5

\* C20: the auth bootstrap.  While auth.json is absent, the first load creates
\* a record whose username is admin; and until a password change succeeds,
\* verify_password accepts admin with the password admin and nothing else,
\* and must_change_password() returns true.
C20_AuthBootstrap ==
    /\ ~auth_file.exists =>
           \A salt \in Salts :
               LET loaded == load_auth_data(auth_file, salt)
               IN  /\ loaded.file.exists
                   /\ loaded.data # << >>
                   /\ loaded.data[1].username = Plain("admin")
                   /\ verify_password(loaded.file, "admin", "admin", salt).value
                   /\ \A password \in Passwords \ {"admin"} :
                          ~verify_password(loaded.file, "admin", password, salt).value
                   /\ must_change_password(loaded.file, salt).value
    /\ auth_result.op # "" =>
           /\ auth_file.exists
           /\ auth_file.data # << >>
           /\ decrypt_dict(auth_file.data[1]).username = Plain("admin")
    /\ (auth_result.op = "verify_password" /\ ~auth_result.changed) =>
           (auth_result.value <=>
                (auth_result.username = "admin" /\ auth_result.password = "admin"))
    /\ (auth_result.op = "must_change_password" /\ ~auth_result.changed) =>
           auth_result.value

\* the first call found no auth.json and verified admin/admin against the
\* record it created
C20_Witness ==
    /\ auth_result.op = "verify_password"
    /\ ~auth_result.changed
    /\ auth_result.username = "admin"
    /\ auth_result.password = "admin"
    /\ auth_result.value
    /\ auth_file.exists
    /\ auth_file.data[1].must_change_password

\* C21: after a successful change_password(username, old, new),
\* must_change_password() returns false, verify_password(username, new) is
\* true, and verify_password(username, old) is false when old differs from new.
C21_PasswordChanged ==
    \A username \in Usernames, old_password \in Passwords, new_password \in Passwords,
       salt \in Salts, new_salt \in Salts :
        LET changed == change_password(auth_file, username, old_password, new_password,
                                       salt, new_salt)
        IN  changed.value =>
                /\ ~must_change_password(changed.file, salt).value
                /\ verify_password(changed.file, username, new_password, salt).value
                /\ old_password # new_password =>
                       ~verify_password(changed.file, username, old_password, salt).value

\* the default password has been changed: the new one verifies, the old one
\* does not, and the flag is cleared
C21_Witness ==
    /\ auth_result.op = "change_password"
    /\ auth_result.value
    /\ auth_result.password = "changed-1"
    /\ ~must_change_password(auth_file, 1).value
    /\ verify_password(auth_file, "admin", "changed-1", 1).value
    /\ ~verify_password(auth_file, "admin", "admin", 1).value

\* C22: an auth file that is there but empty or unparseable is treated as not
\* yet initialized: loading it re-creates the default record, so that
\* load_auth_data returns a record, admin/admin verifies and
\* must_change_password() is true.
C22_CorruptAuthReinitialized ==
    (auth_file.exists /\ auth_file.data = << >>) =>
        \A salt \in Salts :
            LET loaded == load_auth_data(auth_file, salt)
            IN  /\ loaded.data # << >>
                /\ verify_password(loaded.file, "admin", "admin", salt).value
                /\ must_change_password(loaded.file, salt).value

\* the ids of the devices in the file
StoredIds == {devices_file[i].id : i \in 1..Len(devices_file)}

\* the file reflects every completed operation: a device whose add completed
\* is in the file unless a delete of it was called, a device whose delete
\* completed is not in the file, and a device whose update completed has the
\* new name while it is in the file
NoLostWrite ==
    /\ \A id \in store_log.added \ store_log.delete_called : id \in StoredIds
    /\ \A id \in store_log.deleted : id \notin StoredIds
    /\ \A i \in 1..Len(devices_file) :
           devices_file[i].id \in store_log.updated => devices_file[i].name = "fw-b"

\* C23: device-store writers do not interleave.  No writer is between its load
\* and its save while another one is, so the file reflects every completed
\* add, update and delete.
C23_WritersDoNotInterleave ==
    /\ \A t1, t2 \in Threads :
           (t1 # t2 /\ writers[t1].pc = "loaded") => writers[t2].pc # "loaded"
    /\ NoLostWrite

\* C24: under concurrent polls for one device key the read-modify-write of
\* the baseline is atomic.  In every reachable state the stored baseline is the
\* four counters and the timestamp of one single sample, and the baseline a
\* poll computes its deltas against was stored by one completed sample.
C24_BaselineAtomic ==
    /\ PollKey \in DOMAIN previous_stats =>
           \/ previous_stats[PollKey] \in poll_log.started
           \/ \E t \in Threads :
                  /\ pollers[t].pc \in 3..6
                  /\ \A u \in Threads \ {t} : pollers[u].pc \notin 3..6
    /\ \A t \in Threads :
           pollers[t].pc \in 2..6 => pollers[t].device_stats \in poll_log.stored

C26_FailedChangeKeepsRecord ==
    \A username \in Usernames, old_password \in Passwords, new_password \in Passwords,
       salt \in Salts, new_salt \in Salts :
        LET before == load_auth_data(auth_file, salt)
            wrong == \/ Plain(username) # before.data[1].username
                     \/ ~checkpw(old_password, before.data[1].password)
            r == change_password(auth_file, username, old_password, new_password,
                                 salt, new_salt)
            after == load_auth_data(r.file, salt)
        IN  wrong =>
                /\ ~r.value
                /\ r.file = before.file
                /\ auth_file.exists => r.file = auth_file
                /\ after.data[1].password = before.data[1].password
                /\ after.data[1].must_change_password = before.data[1].must_change_password

\* a change_password call has failed on a record that an earlier call had
\* changed
C26_Witness ==
    /\ auth_result.op = "change_password"
    /\ ~auth_result.value
    /\ auth_result.changed
    /\ auth_file.exists
    /\ ~decrypt_dict(auth_file.data[1]).must_change_password

\* C27: from an empty store with an empty selection, after any sequence of
\* create and delete requests, selected_device_id is empty exactly when the
\* store has no devices and is otherwise the id of a stored device.
C27_SelectedDeviceExists ==
    LET ids == {devices_file[i].id : i \in 1..Len(devices_file)}
    IN  /\ settings.selected_device_id = "" <=> devices_file = << >>
        /\ devices_file # << >> => settings.selected_device_id \in ids

\* the selected device, the first one created, has been deleted and the
\* remaining device is selected
C27_Witness ==
    /\ served.path = "/api/devices"
    /\ served.answer = "handler"
    /\ response.route = "delete_device"
    /\ Len(devices_file) = 1
    /\ devices_file[1].id = IdPool[2]
    /\ settings.selected_device_id = IdPool[2]

\* what must_change_password() returns in the current state
MustChange == \A salt \in Salts : must_change_password(auth_file, salt).value

\* C28: from the bootstrap of the default record, must_change_password()
\* returns true until a change_password call has succeeded and false ever
\* after; the only step that clears the flag is a successful change_password,
\* so no login, logout or failed change clears it.
C28_MustChangeUntilChanged ==
    /\ [](MustChange <=> ~auth_result.changed)
    /\ [][(MustChange /\ ~MustChange') =>
              /\ served'.path = "/api/change-password"
              /\ served'.answer = "handler"
              /\ auth_result'.op = "change_password"
              /\ auth_result'.value]_vars
    /\ [][~MustChange => ~MustChange']_vars

\* after a successful change the client has logged in again with the new
\* password and the flag is still false
C28_Witness ==
    /\ auth_result.changed
    /\ auth_result.op = "login"
    /\ auth_result.value
    /\ auth_result.password # "admin"
    /\ served.path = "/api/login"
    /\ served.answer = "200"
    /\ ~MustChange

\* the routes of the model that stand behind login_required
ProtectedPaths ==
    {"/", "/api/logout", "/api/session-keepalive", "/api/change-password", "/api/devices"}

\* C29: the function of a protected route runs only for a session with
\* logged_in set; other requests to it get 401 under /api/ and a redirect to
\* the login page elsewhere.  logged_in becomes set only in a login whose
\* verify_password succeeded and stays set until a logout, after which it is
\* not set, so every protected request is refused until the next such login.
C29_SessionGating ==
    /\ [](served.path \in ProtectedPaths =>
            /\ served.answer = "handler" <=> served.logged_in
            /\ ~served.logged_in =>
                   served.answer = IF served.path = "/" THEN "redirect" ELSE "401")
    /\ [][served' # served => served'.logged_in = session.logged_in]_vars
    /\ [][(~session.logged_in /\ session'.logged_in) =>
              /\ served'.path = "/api/login"
              /\ auth_result'.op = "login"
              /\ auth_result'.value
              /\ \E salt \in Salts :
                     verify_password(auth_file, auth_result'.username,
                                     auth_result'.password, salt).value]_vars
    /\ [][(session.logged_in /\ ~session'.logged_in) =>
              served'.path = "/api/logout"]_vars
    /\ [][(served' # served /\ served'.path = "/api/logout" /\ served'.answer = "handler") =>
              ~session'.logged_in]_vars

\* after a successful login and a logout, a request for the dashboard has been
\* redirected to the login page
C29_Witness ==
    /\ auth_result.op = "login"
    /\ auth_result.value
    /\ ~session.logged_in
    /\ served.path = "/"
    /\ ~served.logged_in
    /\ served.answer = "redirect"

\* C30: a baseline stored under a device id holds counters fetched from the
\* address of the device with that id; a poll made while the selected device
\* is disabled or gone stores nothing from the fallback firewall under its id.
C30_BaselineProvenance ==
    \A key \in (DOMAIN baseline_from) \cap DeviceIds :
        baseline_from[key].address = baseline_from[key].own

====
